---- MODULE Spec2Model ----
(***************************************************************************)
(* The asynchronous test-execution core of serval-run: the TestJob record, *)
(* its status machine, the job queue (src/queue) and the worker loop       *)
(* (src/worker/main.rs).                                                   *)
(*                                                                         *)
(* Spec is the in-process backend (InMemoryQueue): every section of code   *)
(* that runs under the mutex is one action, and tokio's Notify is modelled *)
(* by its permit and its list of waiters.                                  *)
(*                                                                         *)
(* SpecRedis is the durable backend (RedisQueue): every Redis command is   *)
(* one action, so the commands of concurrent calls interleave.             *)
(*                                                                         *)
(* SpecPair gives both backends the same calls, one after the other.       *)
(* SpecApi adds the job endpoints (handlers/job.rs), SpecExec the run      *)
(* endpoints, the executor and the test runner, SpecRetry the worker's     *)
(* classification of a failed execution.  SpecDelete and SpecWake are Spec *)
(* with delete_job and with a consumer that keeps running; SpecSave takes  *)
(* ResultHandler::save_results call by call, SpecLoop is the worker's loop *)
(* with its shutdown flag.  SpecSubst, SpecJson, SpecHeaders and           *)
(* SpecStatus apply the test runner's functions (placeholders, JSON        *)
(* containment, request headers, expected status) to bounded inputs.       *)
(***************************************************************************)
EXTENDS Integers, Sequences, FiniteSets, TLC

\* ------------------------------------------------------------------ bounds
NJobs == 2          \* job ids that Uuid::new_v4 can hand out
NWorkers == 2       \* worker loops (tasks calling dequeue)
MaxRetries == 2     \* largest max_retries given to a job
MaxPending == 1     \* cap on notify_one calls not yet executed
NClients == 2       \* HTTP requests served at the same time (Redis backend)
NRedisJobs == 1     \* job ids handed out in the Redis runs
MaxRequeues == 2    \* requeue calls that get past their check in a Redis run
MaxQueueLen == 2    \* longest FIFO when both backends are run side by side
MaxLimit == 2       \* largest limit given to list_jobs_by_user

JobIds == 1..NJobs
Users == {"u1"}
Workers == 1..NWorkers
Clients == (NWorkers + 1)..(NWorkers + NClients)
Procs == Workers \cup Clients
RedisJobIds == 1..NRedisJobs
PairUsers == {"u1", "u2"}
Errors == {"Error 1"}
ReportIds == {"report"}

\* ------------------------------------------------------------ Option<T>
None == {}
Some(v) == {v}
Now == "now_utc"

\* --------------------------------------------------- JobStatus (job.rs)
Pending == "pending"
Running == "running"
Completed == "completed"
Failed == "failed"
Dead == "dead"
Cancelled == "cancelled"
JobStatus == {Pending, Running, Completed, Failed, Dead, Cancelled}

is_terminal(status) == status \in {Completed, Dead, Cancelled}

\* TestJob::new followed by with_max_retries (job.rs)
DefaultMaxRetries == 3
TestJobNew(id, user, now) ==
    [id |-> id, user_id |-> user, status |-> Pending,
     retry_count |-> 0, max_retries |-> DefaultMaxRetries,
     created_at |-> now, started_at |-> None, completed_at |-> None,
     error_message |-> None, report_id |-> None]
with_max_retries(job, m) == [job EXCEPT !.max_retries = m]

\* ------------------------------------------------------------------ state
VARIABLES
    jobs,       \* InMemoryQueueInner.jobs: HashMap<Uuid, TestJob>
    queue,      \* InMemoryQueueInner.queue: VecDeque<Uuid>
    issued,     \* ids Uuid::new_v4 has already returned
    permit,     \* tokio Notify: a stored notification
    waiters,    \* tokio Notify: the tasks waiting in notified(), oldest first
    pendingNotify, \* calls that dropped the lock and have yet to notify_one
    wpc,        \* where each worker stands in its loop (worker/main.rs)
    wjob,       \* the id of the job a worker got from dequeue, else 0
    byUser,     \* Redis: serval:jobs:by_user:{uid}, a set of job ids
    cpc,        \* Redis: where each client request stands in its queue call
    cjob,       \* Redis: the job id a client request works on, else 0
    rloc,       \* Redis: the `job` a call has read (GET) and will SET, if any
    requeues,   \* Redis: how many requeue calls have got past their check
    mem,        \* an InMemoryQueue given the same calls as the Redis store
    ex          \* one run request: the database it reads, and how far it got

\* jobs and queue are the store of either backend: the HashMap and VecDeque
\* of InMemoryQueue, or the keys serval:jobs:{id} and the list
\* serval:jobs:queue of RedisQueue (save_job writes the serde_json text of
\* the record, get_job parses it back: every field is kept).
memOnly == <<permit, waiters, pendingNotify>>
redisOnly == <<byUser, cpc, cjob, rloc, requeues>>
vars == <<jobs, queue, issued, permit, waiters, pendingNotify, wpc, wjob,
          byUser, cpc, cjob, rloc, requeues, mem, ex>>

\* created_at: OffsetDateTime::now_utc() when TestJob::new runs; jobs are
\* created one after the other, so the n-th job carries time n
CreatedAt == Cardinality(issued) + 1

Stored(j) == j \in DOMAIN jobs
Put(m, j, job) == [k \in DOMAIN m \cup {j} |-> IF k = j THEN job ELSE m[k]]
Remove(m, j) == [k \in DOMAIN m \ {j} |-> m[k]]
Without(s, c) == SelectSeq(s, LAMBDA x : x # c)

\* ---------------------------------------- the record updates of the queue
\* (faulty variant: the id is put at the front)
push_front(q, j) == <<j>> \o q
\* inner.queue.push_back(job_id)
push_back(q, j) == Append(q, j)

\* dequeue: job.status = Running; job.started_at = Some(now)
dequeue_mark(job) == [job EXCEPT !.status = Running, !.started_at = Some(Now)]

\* update_status: job.status = status; completed_at stamped when terminal
update_status_apply(job, status) ==
    [job EXCEPT !.status = status,
                !.completed_at = IF is_terminal(status) THEN Some(Now) ELSE @]

\* complete_job
complete_job_apply(job, report_id) ==
    [job EXCEPT !.status = Completed, !.completed_at = Some(Now),
                !.report_id = Some(report_id)]

\* fail_job
\* (faulty variant: a Dead job is not stamped)
fail_job_apply_nostamp(job, error, retryable) ==
    IF retryable /\ job.retry_count < job.max_retries
    THEN [job EXCEPT !.error_message = Some(error),
                     !.retry_count = @ + 1, !.status = Failed]
    ELSE [job EXCEPT !.error_message = Some(error), !.status = Dead]
\* (faulty variant: one retry too many)
fail_job_apply_bug(job, error, retryable) ==
    IF retryable /\ job.retry_count <= job.max_retries
    THEN [job EXCEPT !.error_message = Some(error),
                     !.retry_count = @ + 1, !.status = Failed]
    ELSE [job EXCEPT !.error_message = Some(error),
                     !.status = Dead, !.completed_at = Some(Now)]
fail_job_apply(job, error, retryable) ==
    IF retryable /\ job.retry_count < job.max_retries
    THEN [job EXCEPT !.error_message = Some(error),
                     !.retry_count = @ + 1, !.status = Failed]
    ELSE [job EXCEPT !.error_message = Some(error),
                     !.status = Dead, !.completed_at = Some(Now)]

\* requeue: only a Failed job passes the check
requeue_allowed(job) == job.status = Failed
\* (faulty variant: started_at is kept)
requeue_apply_bug(job) == [job EXCEPT !.status = Pending, !.error_message = None]
requeue_apply(job) ==
    [job EXCEPT !.status = Pending, !.started_at = None, !.error_message = None]

\* cancel_job: a terminal job is refused
\* (faulty variant: only a Cancelled job is refused)
cancel_allowed_bug(job) == job.status # Cancelled
cancel_allowed(job) == ~is_terminal(job.status)
cancel_apply(job) == [job EXCEPT !.status = Cancelled, !.completed_at = Some(Now)]

\* ------------------------- what a call returns, read off the stored state
\* AppResult<()> of update_status, complete_job, fail_job, delete_job
found_result(j) == IF Stored(j) THEN "Ok" ELSE "NotFound"
requeue_result(j) ==
    IF ~Stored(j) THEN "NotFound"
    ELSE IF ~requeue_allowed(jobs[j]) THEN "Validation" ELSE "Ok"
cancel_job_result(j) ==
    IF ~Stored(j) THEN "NotFound"
    ELSE IF ~cancel_allowed(jobs[j]) THEN "Validation" ELSE "Ok"
get_job_in(m, j) == IF j \in DOMAIN m THEN Some(m[j]) ELSE None
get_job(j) == get_job_in(jobs, j)
queue_length == Len(queue)

\* tokio Notify::notify_one: wake the oldest waiter, or store one permit
notify_one(pc) ==
    IF waiters # << >>
    THEN /\ wpc' = [pc EXCEPT ![Head(waiters)] = "woken"]
         /\ waiters' = Tail(waiters)
         /\ UNCHANGED permit
    ELSE /\ permit' = TRUE
         /\ wpc' = pc
         /\ UNCHANGED waiters

\* the queue, the workers and the clients before anything has happened
QueueInit ==
    /\ jobs = << >>
    /\ queue = << >>
    /\ issued = {}
    /\ permit = FALSE
    /\ waiters = << >>
    /\ pendingNotify = 0
    /\ wpc = [w \in Workers |-> "idle"]
    /\ wjob = [w \in Workers |-> 0]
    /\ byUser = [u \in PairUsers |-> {}]
    /\ cpc = [c \in Clients |-> "idle"]
    /\ cjob = [c \in Clients |-> 0]
    /\ rloc = [p \in Procs |-> None]
    /\ requeues = 0
    /\ mem = [jobs |-> << >>, queue |-> << >>, permit |-> FALSE]

\* no run request is being served
NoRequest == [pc |-> "none"]
Init == QueueInit /\ ex = NoRequest

\* ------------------------------------------------ InMemoryQueue operations
\* enqueue of a job made by TestJob::new, up to drop(inner)
Enqueue(j, u, m) ==
    /\ j \notin issued
    /\ pendingNotify < MaxPending
    /\ jobs' = Put(jobs, j, with_max_retries(TestJobNew(j, u, CreatedAt), m))
    /\ queue' = push_back(queue, j)
    /\ issued' = issued \cup {j}
    /\ pendingNotify' = pendingNotify + 1
    /\ UNCHANGED <<permit, waiters, wpc, wjob>>

\* self.notify.notify_one() of enqueue and requeue, after the lock is dropped
Notify ==
    /\ pendingNotify > 0
    /\ pendingNotify' = pendingNotify - 1
    /\ notify_one(wpc)
    /\ UNCHANGED <<jobs, queue, issued, wjob>>

\* The locked section of dequeue (both copies in the code are the same):
\* pop the head; a stored job is marked Running and returned (the worker
\* then holds it), otherwise the caller goes on to onMiss.
PopAndMark(w, onMiss) ==
    IF queue # << >> /\ Stored(Head(queue))
    THEN /\ jobs' = Put(jobs, Head(queue), dequeue_mark(jobs[Head(queue)]))
         /\ queue' = Tail(queue)
         /\ wpc' = [wpc EXCEPT ![w] = "got"]
         /\ wjob' = [wjob EXCEPT ![w] = Head(queue)]
    ELSE /\ queue' = IF queue = << >> THEN queue ELSE Tail(queue)
         /\ wpc' = [wpc EXCEPT ![w] = onMiss]
         /\ UNCHANGED <<jobs, wjob>>

\* (faulty variant: dequeue does not look at the FIFO before it waits)
DequeueWithoutTry(w) ==
    /\ wpc[w] = "idle"
    /\ wpc' = [wpc EXCEPT ![w] = "select"]
    /\ UNCHANGED <<jobs, queue, wjob, issued, permit, waiters, pendingNotify>>
\* dequeue: "Try to get a job immediately"
DequeueTry(w) ==
    /\ wpc[w] = "idle"
    /\ PopAndMark(w, "select")
    /\ UNCHANGED <<issued, permit, waiters, pendingNotify>>

\* dequeue: first poll of select!: notified() takes a stored permit at once,
\* otherwise the task joins the waiters
DequeueSelect(w) ==
    /\ wpc[w] = "select"
    /\ IF permit
       THEN /\ permit' = FALSE
            /\ wpc' = [wpc EXCEPT ![w] = "notified"]
            /\ UNCHANGED waiters
       ELSE /\ waiters' = Append(waiters, w)
            /\ wpc' = [wpc EXCEPT ![w] = "waiting"]
            /\ UNCHANGED permit
    /\ UNCHANGED <<jobs, queue, issued, pendingNotify, wjob>>

\* dequeue: the sleep(timeout) branch wins => Ok(None).  A Notified future
\* dropped after it was woken hands its notification on (tokio Notify).
DequeueTimeout(w) ==
    /\ wpc[w] \in {"waiting", "woken"}
    /\ IF wpc[w] = "waiting"
       THEN /\ waiters' = Without(waiters, w)
            /\ wpc' = [wpc EXCEPT ![w] = "idle"]
            /\ UNCHANGED permit
       ELSE notify_one([wpc EXCEPT ![w] = "idle"])
    /\ UNCHANGED <<jobs, queue, issued, pendingNotify, wjob>>

\* dequeue: the notified() branch: lock, pop, mark, else Ok(None)
DequeueNotified(w) ==
    /\ wpc[w] \in {"woken", "notified"}
    /\ PopAndMark(w, "idle")
    /\ UNCHANGED <<issued, permit, waiters, pendingNotify>>

UpdateStatus(j, status) ==
    /\ jobs' = IF Stored(j) THEN Put(jobs, j, update_status_apply(jobs[j], status))
               ELSE jobs
    /\ UNCHANGED <<queue, issued, permit, waiters, pendingNotify>>

CompleteJob(j, report_id) ==
    /\ jobs' = IF Stored(j) THEN Put(jobs, j, complete_job_apply(jobs[j], report_id))
               ELSE jobs
    /\ UNCHANGED <<queue, issued, permit, waiters, pendingNotify>>

FailJob(j, error, retryable) ==
    /\ jobs' = IF Stored(j) THEN Put(jobs, j, fail_job_apply(jobs[j], error, retryable))
               ELSE jobs
    /\ UNCHANGED <<queue, issued, permit, waiters, pendingNotify>>

\* requeue, up to drop(inner)
Requeue(j) ==
    /\ IF requeue_result(j) = "Ok"
       THEN /\ pendingNotify < MaxPending
            /\ jobs' = Put(jobs, j, requeue_apply(jobs[j]))
            /\ queue' = push_back(queue, j)
            /\ pendingNotify' = pendingNotify + 1
       ELSE UNCHANGED <<jobs, queue, pendingNotify>>
    /\ UNCHANGED <<issued, permit, waiters, wpc, wjob>>

DeleteJob(j) ==
    /\ jobs' = IF Stored(j) THEN Remove(jobs, j) ELSE jobs
    /\ UNCHANGED <<queue, issued, permit, waiters, pendingNotify, wpc, wjob>>

CancelJob(j) ==
    /\ jobs' = IF cancel_job_result(j) = "Ok" THEN Put(jobs, j, cancel_apply(jobs[j]))
               ELSE jobs
    /\ UNCHANGED <<queue, issued, permit, waiters, pendingNotify, wpc, wjob>>

\* ------------------------------------------------ the worker loop (main.rs)
\* update_status(job_id, Running) after dequeue; an error => continue
WorkerMarkRunning(w) ==
    /\ wpc[w] = "got"
    /\ UpdateStatus(wjob[w], Running)
    /\ wpc' = [wpc EXCEPT ![w] = IF found_result(wjob[w]) = "Ok" THEN "exec" ELSE "idle"]
    /\ wjob' = [wjob EXCEPT ![w] = IF found_result(wjob[w]) = "Ok" THEN @ ELSE 0]

\* (faulty variant: the loop does not go on after complete_job)
WorkerCompleteTwice(w, report_id) ==
    /\ wpc[w] = "exec"
    /\ CompleteJob(wjob[w], report_id)
    /\ UNCHANGED <<wpc, wjob>>
\* executor.execute returned Ok(result): complete_job
WorkerComplete(w, report_id) ==
    /\ wpc[w] = "exec"
    /\ CompleteJob(wjob[w], report_id)
    /\ wpc' = [wpc EXCEPT ![w] = "idle"]
    /\ wjob' = [wjob EXCEPT ![w] = 0]

\* executor.execute returned Err(e): fail_job(e, is_retryable_error(e))
WorkerFail(w, error, retryable) ==
    /\ wpc[w] = "exec"
    /\ FailJob(wjob[w], error, retryable)
    /\ wpc' = [wpc EXCEPT ![w] = "idle"]
    /\ wjob' = [wjob EXCEPT ![w] = 0]

Next ==
    \/ \E j \in JobIds, u \in Users, m \in 0..MaxRetries :
          Enqueue(j, u, m) /\ UNCHANGED <<redisOnly, mem, ex>>
    \/ Notify /\ UNCHANGED <<redisOnly, mem, ex>>
    \/ \E w \in Workers : DequeueTry(w) /\ UNCHANGED <<redisOnly, mem, ex>>
    \/ \E w \in Workers : DequeueSelect(w) /\ UNCHANGED <<redisOnly, mem, ex>>
    \/ \E w \in Workers : DequeueTimeout(w) /\ UNCHANGED <<redisOnly, mem, ex>>
    \/ \E w \in Workers : DequeueNotified(w) /\ UNCHANGED <<redisOnly, mem, ex>>
    \/ \E w \in Workers : WorkerMarkRunning(w) /\ UNCHANGED <<redisOnly, mem, ex>>
    \/ \E w \in Workers, r \in ReportIds :
          WorkerComplete(w, r) /\ UNCHANGED <<redisOnly, mem, ex>>
    \/ \E w \in Workers, e \in Errors, b \in BOOLEAN :
          WorkerFail(w, e, b) /\ UNCHANGED <<redisOnly, mem, ex>>
    \/ \E j \in JobIds : Requeue(j) /\ UNCHANGED <<redisOnly, mem, ex>>
    \/ \E j \in JobIds : CancelJob(j) /\ UNCHANGED <<redisOnly, mem, ex>>

Spec == Init /\ [][Next]_vars

\* The worker loop keeps running and executor.execute returns: a worker that
\* has a job takes its next step.
WorkerStep(w) ==
    \/ WorkerMarkRunning(w) /\ UNCHANGED <<redisOnly, mem, ex>>
    \/ \E r \in ReportIds : WorkerComplete(w, r) /\ UNCHANGED <<redisOnly, mem, ex>>
    \/ \E e \in Errors, b \in BOOLEAN : WorkerFail(w, e, b) /\ UNCHANGED <<redisOnly, mem, ex>>
SpecLive == Spec /\ \A w \in Workers : WF_vars(WorkerStep(w))

\* SpecWake: Spec with one consumer that keeps calling dequeue: every step
\* of worker 1's loop is taken in the end (the 5 s sleep of dequeue's
\* select! elapses, execution ends).  Nothing is asked of the other worker.
ConsumerStep(w) ==
    \/ DequeueTry(w) /\ UNCHANGED <<redisOnly, mem, ex>>
    \/ DequeueSelect(w) /\ UNCHANGED <<redisOnly, mem, ex>>
    \/ DequeueTimeout(w) /\ UNCHANGED <<redisOnly, mem, ex>>
    \/ DequeueNotified(w) /\ UNCHANGED <<redisOnly, mem, ex>>
    \/ WorkerStep(w)
SpecWake == Spec /\ WF_vars(ConsumerStep(1))

\* SpecDelete: the in-memory queue of Spec with delete_job as well.
DeleteNext ==
    \/ Next
    \/ \E j \in JobIds : DeleteJob(j) /\ UNCHANGED <<redisOnly, mem, ex>>
SpecDelete == Init /\ [][DeleteNext]_vars

\* ------------------------------------------------------------- RedisQueue
\* Every Redis command is one step; a call is its commands in order, and
\* other connections' commands run in between.
\* save_job: SET serval:jobs:{id}
save_job(p) == jobs' = Put(jobs, rloc[p][1].id, rloc[p][1])
Read(job) == <<job>>

\* enqueue: save_job(&job)
REnqueueSave(c, j, u, m) ==
    /\ cpc[c] = "idle"
    /\ j \notin issued
    /\ issued' = issued \cup {j}
    /\ jobs' = Put(jobs, j, with_max_retries(TestJobNew(j, u, CreatedAt), m))
    /\ cpc' = [cpc EXCEPT ![c] = "enqueue_rpush"]
    /\ cjob' = [cjob EXCEPT ![c] = j]
    /\ UNCHANGED <<queue, wpc, wjob, byUser, rloc>>

\* enqueue: RPUSH serval:jobs:queue
REnqueuePush(c) ==
    /\ cpc[c] = "enqueue_rpush"
    /\ queue' = Append(queue, cjob[c])
    /\ cpc' = [cpc EXCEPT ![c] = "enqueue_sadd"]
    /\ UNCHANGED <<jobs, issued, wpc, wjob, byUser, cjob, rloc>>

\* enqueue: SADD serval:jobs:by_user:{uid}; Ok(job_id)
REnqueueIndex(c) ==
    /\ cpc[c] = "enqueue_sadd"
    /\ byUser' = [byUser EXCEPT ![jobs[cjob[c]].user_id] = @ \cup {cjob[c]}]
    /\ cpc' = [cpc EXCEPT ![c] = "idle"]
    /\ cjob' = [cjob EXCEPT ![c] = 0]
    /\ UNCHANGED <<jobs, queue, issued, wpc, wjob, rloc>>

\* dequeue: BLPOP pops the head; on an empty list it waits and, at the
\* timeout, the call returns Ok(None) and the loop calls dequeue again.
RDequeuePop(w) ==
    /\ wpc[w] = "idle"
    /\ queue # << >>
    /\ queue' = Tail(queue)
    /\ wjob' = [wjob EXCEPT ![w] = Head(queue)]
    /\ wpc' = [wpc EXCEPT ![w] = "dequeue_get"]
    /\ UNCHANGED <<jobs, issued, byUser, cpc, cjob, rloc>>

\* dequeue: get_job(job_id); the job is marked Running in the local copy
RDequeueGet(w) ==
    /\ wpc[w] = "dequeue_get"
    /\ IF Stored(wjob[w])
       THEN /\ rloc' = [rloc EXCEPT ![w] = Read(dequeue_mark(jobs[wjob[w]]))]
            /\ wpc' = [wpc EXCEPT ![w] = "dequeue_set"]
            /\ UNCHANGED wjob
       ELSE /\ wpc' = [wpc EXCEPT ![w] = "idle"]
            /\ wjob' = [wjob EXCEPT ![w] = 0]
            /\ UNCHANGED rloc
    /\ UNCHANGED <<jobs, queue, issued, byUser, cpc, cjob>>

\* dequeue: save_job(&job); Ok(Some(job))
RDequeueSave(w) ==
    /\ wpc[w] = "dequeue_set"
    /\ save_job(w)
    /\ rloc' = [rloc EXCEPT ![w] = None]
    /\ wpc' = [wpc EXCEPT ![w] = "got"]
    /\ UNCHANGED <<queue, issued, wjob, byUser, cpc, cjob>>

\* the GET of update_status / complete_job / fail_job in the worker loop:
\* the changed copy is kept for the SET; NotFound ends the call
RWorkerGet(w, from, changed, to) ==
    /\ wpc[w] = from
    /\ IF Stored(wjob[w])
       THEN /\ rloc' = [rloc EXCEPT ![w] = Read(changed)]
            /\ wpc' = [wpc EXCEPT ![w] = to]
            /\ UNCHANGED wjob
       ELSE /\ wpc' = [wpc EXCEPT ![w] = "idle"]
            /\ wjob' = [wjob EXCEPT ![w] = 0]
            /\ UNCHANGED rloc
    /\ UNCHANGED <<jobs, queue, issued, byUser, cpc, cjob>>

\* the save_job that ends update_status / complete_job / fail_job
RWorkerSave(w, from, to) ==
    /\ wpc[w] = from
    /\ save_job(w)
    /\ rloc' = [rloc EXCEPT ![w] = None]
    /\ wpc' = [wpc EXCEPT ![w] = to]
    /\ wjob' = [wjob EXCEPT ![w] = IF to = "idle" THEN 0 ELSE @]
    /\ UNCHANGED <<queue, issued, byUser, cpc, cjob>>

\* main.rs: update_status(job_id, Running)
RMarkRunningGet(w) ==
    RWorkerGet(w, "got", update_status_apply(jobs[wjob[w]], Running), "update_set")
RMarkRunningSave(w) == RWorkerSave(w, "update_set", "exec")

\* main.rs: execute returned Ok: complete_job
RCompleteGet(w, report_id) ==
    RWorkerGet(w, "exec", complete_job_apply(jobs[wjob[w]], report_id), "complete_set")
RCompleteSave(w) == RWorkerSave(w, "complete_set", "idle")

\* main.rs: execute returned Err: fail_job(e, is_retryable_error(e))
RFailGet(w, error, retryable) ==
    RWorkerGet(w, "exec", fail_job_apply(jobs[wjob[w]], error, retryable), "fail_set")
RFailSave(w) == RWorkerSave(w, "fail_set", "idle")

\* cancel_job: get_job and the terminal check; an error ends the call
RCancelGet(c, j) ==
    /\ cpc[c] = "idle"
    /\ IF cancel_job_result(j) = "Ok"
       THEN /\ rloc' = [rloc EXCEPT ![c] = Read(cancel_apply(jobs[j]))]
            /\ cpc' = [cpc EXCEPT ![c] = "cancel_set"]
            /\ cjob' = [cjob EXCEPT ![c] = j]
       ELSE UNCHANGED <<rloc, cpc, cjob>>
    /\ UNCHANGED <<jobs, queue, issued, wpc, wjob, byUser>>

\* cancel_job: save_job(&job); Ok(())
RCancelSave(c) ==
    /\ cpc[c] = "cancel_set"
    /\ save_job(c)
    /\ rloc' = [rloc EXCEPT ![c] = None]
    /\ cpc' = [cpc EXCEPT ![c] = "idle"]
    /\ cjob' = [cjob EXCEPT ![c] = 0]
    /\ UNCHANGED <<queue, issued, wpc, wjob, byUser>>

\* requeue: get_job and the Failed check; an error ends the call
RRequeueGet(c, j) ==
    /\ cpc[c] = "idle"
    /\ requeues < MaxRequeues
    /\ IF requeue_result(j) = "Ok"
       THEN /\ rloc' = [rloc EXCEPT ![c] = Read(requeue_apply(jobs[j]))]
            /\ cpc' = [cpc EXCEPT ![c] = "requeue_set"]
            /\ cjob' = [cjob EXCEPT ![c] = j]
            /\ requeues' = requeues + 1
       ELSE UNCHANGED <<rloc, cpc, cjob, requeues>>
    /\ UNCHANGED <<jobs, queue, issued, wpc, wjob, byUser>>

\* requeue: save_job(&job)
RRequeueSave(c) ==
    /\ cpc[c] = "requeue_set"
    /\ save_job(c)
    /\ rloc' = [rloc EXCEPT ![c] = None]
    /\ cpc' = [cpc EXCEPT ![c] = "requeue_rpush"]
    /\ UNCHANGED <<queue, issued, wpc, wjob, byUser, cjob>>

\* requeue: RPUSH serval:jobs:queue; Ok(())
RRequeuePush(c) ==
    /\ cpc[c] = "requeue_rpush"
    /\ queue' = Append(queue, cjob[c])
    /\ cpc' = [cpc EXCEPT ![c] = "idle"]
    /\ cjob' = [cjob EXCEPT ![c] = 0]
    /\ UNCHANGED <<jobs, issued, wpc, wjob, byUser, rloc>>

RedisNext ==
    \/ \E c \in Clients, j \in RedisJobIds, u \in Users, m \in 1..MaxRetries :
          REnqueueSave(c, j, u, m) /\ UNCHANGED <<memOnly, requeues, mem, ex>>
    \/ \E c \in Clients : REnqueuePush(c) /\ UNCHANGED <<memOnly, requeues, mem, ex>>
    \/ \E c \in Clients : REnqueueIndex(c) /\ UNCHANGED <<memOnly, requeues, mem, ex>>
    \/ \E w \in Workers : RDequeuePop(w) /\ UNCHANGED <<memOnly, requeues, mem, ex>>
    \/ \E w \in Workers : RDequeueGet(w) /\ UNCHANGED <<memOnly, requeues, mem, ex>>
    \/ \E w \in Workers : RDequeueSave(w) /\ UNCHANGED <<memOnly, requeues, mem, ex>>
    \/ \E w \in Workers : RMarkRunningGet(w) /\ UNCHANGED <<memOnly, requeues, mem, ex>>
    \/ \E w \in Workers : RMarkRunningSave(w) /\ UNCHANGED <<memOnly, requeues, mem, ex>>
    \/ \E w \in Workers, r \in ReportIds :
          RCompleteGet(w, r) /\ UNCHANGED <<memOnly, requeues, mem, ex>>
    \/ \E w \in Workers : RCompleteSave(w) /\ UNCHANGED <<memOnly, requeues, mem, ex>>
    \/ \E w \in Workers, e \in Errors, b \in BOOLEAN :
          RFailGet(w, e, b) /\ UNCHANGED <<memOnly, requeues, mem, ex>>
    \/ \E w \in Workers : RFailSave(w) /\ UNCHANGED <<memOnly, requeues, mem, ex>>
    \/ \E c \in Clients, j \in RedisJobIds :
          RCancelGet(c, j) /\ UNCHANGED <<memOnly, requeues, mem, ex>>
    \/ \E c \in Clients : RCancelSave(c) /\ UNCHANGED <<memOnly, requeues, mem, ex>>
    \/ \E c \in Clients, j \in RedisJobIds : RRequeueGet(c, j) /\ UNCHANGED <<memOnly, mem, ex>>
    \/ \E c \in Clients : RRequeueSave(c) /\ UNCHANGED <<memOnly, requeues, mem, ex>>
    \/ \E c \in Clients : RRequeuePush(c) /\ UNCHANGED <<memOnly, requeues, mem, ex>>

SpecRedis == Init /\ [][RedisNext]_vars

\* ------------------------------------------- the two backends side by side
\* SpecPair gives every call, one at a time, to an InMemoryQueue (mem) and
\* to a RedisQueue (jobs, queue, byUser).  A call runs to its end before
\* the next one starts, so no task waits in notified() when notify_one runs
\* and the notification is stored as the permit.

\* the locked section of dequeue on store m: <<store after, Option<TestJob>>>
m_pop(m) ==
    IF m.queue = << >> THEN <<m, None>>
    ELSE IF Head(m.queue) \in DOMAIN m.jobs
         THEN LET job == dequeue_mark(m.jobs[Head(m.queue)])
              IN  <<[m EXCEPT !.queue = Tail(@), !.jobs = Put(@, job.id, job)],
                    Some(job)>>
         ELSE <<[m EXCEPT !.queue = Tail(@)], None>>

\* InMemoryQueue::dequeue: the immediate try, then select!: with a stored
\* permit notified() is ready and the pop is tried again, otherwise the
\* sleep ends the call with Ok(None)
m_dequeue(m) ==
    LET first == m_pop(m)
    IN  IF first[2] # None THEN first
        ELSE IF first[1].permit
             THEN m_pop([first[1] EXCEPT !.permit = FALSE])
             ELSE first

\* RedisQueue::dequeue: BLPOP, get_job, save_job: <<jobs, queue, result>>
r_dequeue ==
    IF queue = << >> THEN <<jobs, queue, None>>
    ELSE IF Stored(Head(queue))
         THEN LET job == dequeue_mark(jobs[Head(queue)])
              IN  <<Put(jobs, job.id, job), Tail(queue), Some(job)>>
         ELSE <<jobs, Tail(queue), None>>

\* Ok / NotFound / Validation of a call, read off a job table
found_in(m, j) == IF j \in DOMAIN m THEN "Ok" ELSE "NotFound"
requeue_result_in(m, j) ==
    IF j \notin DOMAIN m THEN "NotFound"
    ELSE IF ~requeue_allowed(m[j]) THEN "Validation" ELSE "Ok"
cancel_result_in(m, j) ==
    IF j \notin DOMAIN m THEN "NotFound"
    ELSE IF ~cancel_allowed(m[j]) THEN "Validation" ELSE "Ok"

\* jobs.sort_by(|a, b| b.created_at.cmp(&a.created_at))
RECURSIVE sort_desc(_)
sort_desc(S) ==
    IF S = {} THEN << >>
    ELSE LET x == CHOOSE x \in S : \A y \in S : y.created_at <= x.created_at
         IN  <<x>> \o sort_desc(S \ {x})
Min(a, b) == IF a <= b THEN a ELSE b
take(s, n) == SubSeq(s, 1, Min(n, Len(s)))

\* InMemoryQueue::list_jobs_by_user: filter, sort, take(limit)
m_list_jobs_by_user(user_id, limit) ==
    take(sort_desc({mem.jobs[j] : j \in {k \in DOMAIN mem.jobs : mem.jobs[k].user_id = user_id}}),
         limit)

\* RedisQueue::list_jobs_by_user: SMEMBERS, take(limit), get_job, sort.
\* A Redis set has no order, so the first `limit` members are any `limit`
\* of them: the set of the lists the call can return.
r_list_jobs_by_user(user_id, limit) ==
    {sort_desc({jobs[j] : j \in T \cap DOMAIN jobs}) :
        T \in {X \in SUBSET byUser[user_id] :
                  Cardinality(X) = Min(limit, Cardinality(byUser[user_id]))}}

pairFixed == <<permit, waiters, pendingNotify, wpc, wjob, cpc, cjob, rloc, requeues, ex>>

PEnqueue(j, u, m) ==
    /\ j \notin issued
    /\ Len(queue) < MaxQueueLen /\ Len(mem.queue) < MaxQueueLen
    /\ LET job == with_max_retries(TestJobNew(j, u, CreatedAt), m)
       IN  /\ mem' = [jobs |-> Put(mem.jobs, j, job),
                      queue |-> push_back(mem.queue, j), permit |-> TRUE]
           /\ jobs' = Put(jobs, j, job)
           /\ queue' = Append(queue, j)
           /\ byUser' = [byUser EXCEPT ![u] = @ \cup {j}]
    /\ issued' = issued \cup {j}
    /\ UNCHANGED pairFixed

PDequeue ==
    /\ mem' = m_dequeue(mem)[1]
    /\ jobs' = r_dequeue[1]
    /\ queue' = r_dequeue[2]
    /\ UNCHANGED <<issued, byUser, pairFixed>>

\* a call that changes only the record: get, change, put back
PChange(j, change(_)) ==
    /\ mem' = IF j \in DOMAIN mem.jobs
              THEN [mem EXCEPT !.jobs = Put(@, j, change(mem.jobs[j]))] ELSE mem
    /\ jobs' = IF Stored(j) THEN Put(jobs, j, change(jobs[j])) ELSE jobs
    /\ UNCHANGED <<queue, issued, byUser, pairFixed>>

PUpdateStatus(j, status) ==
    PChange(j, LAMBDA job : update_status_apply(job, status))
PCompleteJob(j, report_id) ==
    PChange(j, LAMBDA job : complete_job_apply(job, report_id))
PFailJob(j, error, retryable) ==
    PChange(j, LAMBDA job : fail_job_apply(job, error, retryable))
PCancelJob(j) ==
    PChange(j, LAMBDA job : IF cancel_allowed(job) THEN cancel_apply(job) ELSE job)

PRequeue(j) ==
    /\ Len(queue) < MaxQueueLen /\ Len(mem.queue) < MaxQueueLen
    /\ mem' = IF requeue_result_in(mem.jobs, j) = "Ok"
              THEN [jobs |-> Put(mem.jobs, j, requeue_apply(mem.jobs[j])),
                    queue |-> push_back(mem.queue, j), permit |-> TRUE]
              ELSE mem
    /\ IF requeue_result(j) = "Ok"
       THEN /\ jobs' = Put(jobs, j, requeue_apply(jobs[j]))
            /\ queue' = Append(queue, j)
       ELSE UNCHANGED <<jobs, queue>>
    /\ UNCHANGED <<issued, byUser, pairFixed>>

\* delete_job: jobs.remove in memory; SREM and DEL in Redis
PDeleteJob(j) ==
    /\ mem' = IF j \in DOMAIN mem.jobs
              THEN [mem EXCEPT !.jobs = Remove(@, j)] ELSE mem
    /\ IF Stored(j)
       THEN /\ byUser' = [byUser EXCEPT ![jobs[j].user_id] = @ \ {j}]
            /\ jobs' = Remove(jobs, j)
       ELSE UNCHANGED <<jobs, byUser>>
    /\ UNCHANGED <<queue, issued, pairFixed>>

PairNext ==
    \/ \E j \in JobIds, u \in PairUsers : PEnqueue(j, u, MaxRetries)
    \/ PDequeue
    \/ \E j \in JobIds : PUpdateStatus(j, Running)
    \/ \E j \in JobIds, r \in ReportIds : PCompleteJob(j, r)
    \/ \E j \in JobIds, e \in Errors, b \in BOOLEAN : PFailJob(j, e, b)
    \/ \E j \in JobIds : PCancelJob(j)
    \/ \E j \in JobIds : PRequeue(j)
    \/ \E j \in JobIds : PDeleteJob(j)

SpecPair == Init /\ [][PairNext]_vars

\* ------------------------------------------------- the job endpoints
\* SpecApi: the handlers of handlers/job.rs and handlers/test_run.rs, called
\* by the authenticated user `caller`, on top of the queue and the worker
\* loop of Spec.

\* the worker processes serving the endpoints' queue
ApiWorkers == {1}

\* "Verify ownership": job.user_id != user.id => NotFound
\* (faulty variant: any user passes)
is_owner_bug(job, caller) == TRUE
is_owner(job, caller) == job.user_id = caller

\* get_job(job_id)?.ok_or(NotFound) and the ownership check
Visible(caller, j) == Stored(j) /\ is_owner(jobs[j], caller)

\* get_job_status: the job, or NotFound
get_job_status(caller, j) == IF Visible(caller, j) THEN Some(jobs[j]) ELSE None
\* cancel_job and requeue_job: Ok / NotFound / Validation
cancel_job_handler_result(caller, j) ==
    IF Visible(caller, j) THEN cancel_job_result(j) ELSE "NotFound"
requeue_job_handler_result(caller, j) ==
    IF Visible(caller, j) THEN requeue_result(j) ELSE "NotFound"

HCancelJob(caller, j) ==
    IF Visible(caller, j) THEN CancelJob(j) ELSE UNCHANGED vars

HRequeueJob(caller, j) ==
    IF Visible(caller, j) THEN Requeue(j) ELSE UNCHANGED vars

\* run_scenario_test: async_execution => TestJob::new and enqueue; otherwise
\* the tests run inside the request and the queue is not used
HRunTest(caller, j, async_execution) ==
    IF async_execution
    THEN Enqueue(j, caller, DefaultMaxRetries)
    ELSE UNCHANGED vars

ApiNext ==
    \/ \E caller \in PairUsers, j \in JobIds, a \in BOOLEAN :
          HRunTest(caller, j, a) /\ UNCHANGED <<redisOnly, mem, ex>>
    \/ \E caller \in PairUsers, j \in JobIds :
          HCancelJob(caller, j) /\ UNCHANGED <<redisOnly, mem, ex>>
    \/ \E caller \in PairUsers, j \in JobIds :
          HRequeueJob(caller, j) /\ UNCHANGED <<redisOnly, mem, ex>>
    \/ Notify /\ UNCHANGED <<redisOnly, mem, ex>>
    \/ \E w \in ApiWorkers : DequeueTry(w) /\ UNCHANGED <<redisOnly, mem, ex>>
    \/ \E w \in ApiWorkers : DequeueSelect(w) /\ UNCHANGED <<redisOnly, mem, ex>>
    \/ \E w \in ApiWorkers : DequeueTimeout(w) /\ UNCHANGED <<redisOnly, mem, ex>>
    \/ \E w \in ApiWorkers : DequeueNotified(w) /\ UNCHANGED <<redisOnly, mem, ex>>
    \/ \E w \in ApiWorkers : WorkerMarkRunning(w) /\ UNCHANGED <<redisOnly, mem, ex>>
    \/ \E w \in ApiWorkers, r \in ReportIds :
          WorkerComplete(w, r) /\ UNCHANGED <<redisOnly, mem, ex>>
    \/ \E w \in ApiWorkers, e \in Errors, b \in BOOLEAN :
          WorkerFail(w, e, b) /\ UNCHANGED <<redisOnly, mem, ex>>

SpecApi == Init /\ [][ApiNext]_vars

\* ===================================================== running the tests
\* The run endpoints (handlers/test_run.rs), the executor of the worker
\* (worker/executor.rs) and the test runner (services/test_runner.rs).
\* SpecExec follows one run request from the handler to its response and,
\* for async_execution, through the queue and one worker to the job's
\* final record.

PageSize == 1000      \* the limit given to list_by_api and list_by_collection
MaxApis == 2          \* APIs of the collection
MaxScenarios == 2     \* scenarios of an API
MaxExamples == 2      \* examples of a scenario

ExecWorker == 1
Caller == "u1"

\* TestJobType; the job's job_type and target_id are kept in ex
ScenarioJob == "scenario"
ApiJob == "api"
CollectionJob == "collection"
TestJobType == {ScenarioJob, ApiJob, CollectionJob}

\* ------------------------------------------------------------- AppError
\* a message is the sequence of its words
AppError(kind, msg) == [kind |-> kind, msg |-> msg]
\* thiserror's Display: the #[error("...")] attribute of each variant
to_string(e) ==
    CASE e.kind = "InvalidCredentials" -> <<"Invalid", "credentials">>
      [] e.kind = "InvalidToken" -> <<"Invalid", "token">>
      [] e.kind = "TokenExpired" -> <<"Token", "expired">>
      [] e.kind = "Unauthorized" -> <<"Unauthorized">>
      [] e.kind = "NotFound" -> e.msg \o <<"not", "found">>
      [] e.kind = "Conflict" -> e.msg \o <<"already", "exists">>
      [] e.kind = "Validation" -> <<"Validation", "error:">> \o e.msg
      [] e.kind = "Database" -> <<"Database", "error:">> \o e.msg
      [] e.kind = "Internal" -> <<"Internal", "server", "error">>
      [] e.kind = "Queue" -> <<"Queue", "error:">> \o e.msg

\* str::contains, for a pattern of one word
contains(msg, word) == \E i \in 1..Len(msg) : msg[i] = word

is_retryable_error(e) ==
    CASE e.kind = "Internal" ->
            contains(e.msg, "timeout") \/ contains(e.msg, "connection")
               \/ contains(e.msg, "network")
      [] e.kind = "Queue" ->
            contains(e.msg, "timeout") \/ contains(e.msg, "connection")
      [] e.kind = "Database" -> TRUE
      [] OTHER -> FALSE

\* ----------------------------------------------------------- the database
\* An API row is [http_method, scenarios]; a scenario row is its `examples`
\* JSON value: an array of `len` examples, or something that is not an
\* array.  The API at place a of the collection has id a, its scenario at
\* place s has id <<a, s>>; places are in the order the queries return
\* (created_at descending).
Methods == {"patch", "TRACE"}
ExamplesJson ==
    {[is_array |-> TRUE, len |-> n] : n \in 0..MaxExamples}
       \cup {[is_array |-> FALSE, len |-> 0]}
ScenarioLists == UNION {[1..k -> ExamplesJson] : k \in 0..MaxScenarios}
ApiRows == [http_method : Methods, scenarios : ScenarioLists]
\* an API with more scenarios than one page holds, none with an example
LargeApi ==
    [http_method |-> "patch",
     scenarios |-> [s \in 1..(PageSize + 1) |-> [is_array |-> TRUE, len |-> 0]]]
Databases == UNION {[1..k -> ApiRows] : k \in 0..MaxApis} \cup {<<LargeApi>>}

\* every example expects status 200
ExpectedStatus == 200

\* ScenarioRepository::list_by_api(db, api_id, user_id, limit, 0)
list_by_api(db, a, limit) ==
    take([s \in 1..Len(db[a].scenarios) |-> <<a, s>>], limit)
\* ApiRepository::list_by_collection(db, collection_id, user_id, limit, 0)
list_by_collection(db, limit) == take([a \in 1..Len(db) |-> a], limit)

RECURSIVE extend_all(_)
extend_all(lists) ==
    IF lists = << >> THEN << >> ELSE Head(lists) \o extend_all(Tail(lists))

\* the scenarios a job runs, in the order it runs them
execute_scenario(db, target) == <<target>>
execute_api(db, target) == list_by_api(db, target[1], PageSize)
execute_collection(db) ==
    LET apis == list_by_collection(db, PageSize)
    IN  extend_all([i \in 1..Len(apis) |-> list_by_api(db, apis[i], PageSize)])
scenarios_of(db, job_type, target) ==
    CASE job_type = ScenarioJob -> execute_scenario(db, target)
      [] job_type = ApiJob -> execute_api(db, target)
      [] job_type = CollectionJob -> execute_collection(db)

\* ------------------------------------------------------------ test runner
\* what the network does with one request: a transport error, or a response
TransportError == [kind |-> "error", text |-> <<"connection", "refused">>, status |-> 0]
Response(status) == [kind |-> "response", text |-> << >>, status |-> status]
NotSent == [kind |-> "none", text |-> << >>, status |-> 0]
NetOutcomes == {TransportError, Response(200)}

SupportedMethods == {"GET", "POST", "PUT", "DELETE", "PATCH", "HEAD", "OPTIONS"}
\* str::to_uppercase on the method strings of the model
to_uppercase(s) == IF s = "patch" THEN "PATCH" ELSE s

NoError == AppError("none", << >>)

\* execute_request: Ok((status, body)) or Err; `sent` tells whether
\* request.send() was reached
execute_request(api, net) ==
    IF to_uppercase(api.http_method) \notin SupportedMethods
    THEN [ok |-> FALSE, sent |-> FALSE, status |-> 0,
          err |-> AppError("Validation", <<"Unsupported", "HTTP", "method:", api.http_method>>)]
    ELSE IF net.kind = "error"
    THEN [ok |-> FALSE, sent |-> TRUE, status |-> 0,
          err |-> AppError("Internal", <<"HTTP", "request", "failed:">> \o net.text)]
    ELSE [ok |-> TRUE, sent |-> TRUE, status |-> net.status, err |-> NoError]

\* validate_response: Ok(()) is None, Err(message) is Some(message)
validate_response(status, expected_status) ==
    IF status # expected_status THEN Some(<<"Expected", "status">>) ELSE None

\* run_example: always a TestResult
run_example(db, sid, example_index, net) ==
    LET result == execute_request(db[sid[1]], net)
        validation == validate_response(result.status, ExpectedStatus)
    IN  IF result.ok
        THEN [scenario_id |-> sid, api_id |-> sid[1],
              example_index |-> example_index,
              pass |-> validation = None, error_message |-> validation,
              response_status |-> result.status, response_data |-> Some("body")]
        ELSE [scenario_id |-> sid, api_id |-> sid[1],
              example_index |-> example_index,
              pass |-> FALSE, error_message |-> Some(to_string(result.err)),
              response_status |-> 0, response_data |-> None]

\* run_scenario: Err(Validation) when the examples do not parse, else one
\* TestResult per example, in order; nets[i] is what the network does with
\* the request of example i - 1, if it is sent
run_scenario(db, sid, nets) ==
    LET examples == db[sid[1]].scenarios[sid[2]]
    IN  IF ~examples.is_array
        THEN [ok |-> FALSE, results |-> << >>,
              err |-> AppError("Validation", <<"Invalid", "examples", "format">>)]
        ELSE [ok |-> TRUE,
              results |-> [i \in 1..examples.len |-> run_example(db, sid, i - 1, nets[i])],
              err |-> NoError]
\* the network's part in those requests: NotSent where none was made
requests_of(db, sid, nets) ==
    [i \in 1..Len(nets) |->
        IF execute_request(db[sid[1]], nets[i]).sent THEN nets[i] ELSE NotSent]

Count(results, p) == Cardinality({i \in 1..Len(results) : results[i].pass = p})
\* JobResult of executor.execute
JobResult(report_id, results) ==
    [report_id |-> report_id, total_tests |-> Len(results),
     passed |-> Count(results, TRUE),
     failed |-> Len(results) - Count(results, TRUE)]
\* build_test_run_response
build_test_run_response(results) ==
    [total |-> Len(results), passed |-> Count(results, TRUE),
     failed |-> Len(results) - Count(results, TRUE), results |-> results]

\* ---------------------------------------------------------- a run request
\* ex.pc: "request" (received), "inline" (the handler runs the tests),
\* "queued" (a job was enqueued), "run" (the executor runs the tests),
\* "report" (execute has returned), "done"; ex.store, ex.fault and
\* ex.mongo_ok belong to save_results (SpecSave)
NewRequest(db, job_type, target, async_execution) ==
    [pc |-> "request", db |-> db, job_type |-> job_type, target |-> target,
     async_execution |-> async_execution,
     todo |-> << >>, ran |-> << >>, results |-> << >>, net |-> << >>,
     outcome |-> None, response |-> None,
     store |-> [reports |-> {}, finished |-> {}, responses |-> {}, logs |-> {}],
     fault |-> [op |-> "none", k |-> 0], mongo_ok |-> TRUE]
\* the target_id of a request: a scenario <<a, s>>, an API <<a, 0>>, or the
\* collection
Targets(db, job_type) ==
    CASE job_type = ScenarioJob ->
            {t \in (1..MaxApis) \X (1..MaxScenarios) :
                t[1] <= Len(db) /\ t[2] <= Len(db[t[1]].scenarios)}
      [] job_type = ApiJob -> {<<a, 0>> : a \in 1..Len(db)}
      [] job_type = CollectionJob -> {<<0, 0>>}

ExecInit ==
    /\ QueueInit
    /\ \E db \in Databases, job_type \in TestJobType, async_execution \in BOOLEAN :
          \E target \in Targets(db, job_type) :
              ex = NewRequest(db, job_type, target, async_execution)

\* Uuid::new_v4() of TestJob::new
NewJobId == CHOOSE j \in JobIds : j \notin issued

AsyncTestResponse(job_id) == [job_id |-> job_id, status |-> "pending"]
Ok(value) == [ok |-> TRUE, value |-> value, err |-> NoError]
Err(e) == [ok |-> FALSE, value |-> << >>, err |-> e]

queueVars == <<jobs, queue, issued, permit, waiters, pendingNotify, wpc, wjob>>

\* the handler answers with an error
Reject(e) ==
    /\ ex' = [ex EXCEPT !.pc = "done", !.response = Some(Err(e))]
    /\ UNCHANGED queueVars
\* (faulty variant: a job is enqueued and the tests run inline as well)
AcceptBoth(async_execution, scenarios) ==
    /\ Enqueue(NewJobId, Caller, DefaultMaxRetries)
    /\ ex' = [ex EXCEPT !.pc = "inline", !.todo = scenarios]
\* `if payload.async_execution { ... } else { ... }` of the three handlers:
\* TestJob::new, enqueue and the "pending" answer, or the start of the
\* inline run
Accept(async_execution, scenarios) ==
    IF async_execution
    THEN /\ Enqueue(NewJobId, Caller, DefaultMaxRetries)
         /\ ex' = [ex EXCEPT !.pc = "queued",
                             !.response = Some(Ok(AsyncTestResponse(NewJobId)))]
    ELSE /\ ex' = [ex EXCEPT !.pc = "inline", !.todo = scenarios]
         /\ UNCHANGED queueVars

\* run_scenario_test; `found`: the scenario, its API and the environment
\* exist and belong to the caller; ex.async_execution is the payload's flag
run_scenario_test(found) ==
    /\ ex.pc = "request" /\ ex.job_type = ScenarioJob
    /\ IF ~found THEN Reject(AppError("NotFound", <<"Scenario">>))
       ELSE Accept(ex.async_execution, <<ex.target>>)

\* run_api_tests
run_api_tests(found) ==
    /\ ex.pc = "request" /\ ex.job_type = ApiJob
    /\ LET scenarios == list_by_api(ex.db, ex.target[1], PageSize)
       IN  IF ~found THEN Reject(AppError("NotFound", <<"Api">>))
           ELSE IF scenarios = << >>
           THEN Reject(AppError("Validation", <<"No", "scenarios", "found">>))
           ELSE Accept(ex.async_execution, scenarios)

\* run_collection_tests
run_collection_tests(found) ==
    /\ ex.pc = "request" /\ ex.job_type = CollectionJob
    /\ IF ~found THEN Reject(AppError("NotFound", <<"Collection">>))
       ELSE IF list_by_collection(ex.db, PageSize) = << >>
       THEN Reject(AppError("Validation", <<"No", "APIs", "found">>))
       ELSE Accept(ex.async_execution, execute_collection(ex.db))

\* executor.execute up to the match on job_type: the environment is loaded
Execute(found) ==
    /\ ex.pc = "queued" /\ wpc[ExecWorker] = "exec"
    /\ ex' = IF found
             THEN [ex EXCEPT !.pc = "run",
                             !.todo = scenarios_of(ex.db, ex.job_type, ex.target)]
             ELSE [ex EXCEPT !.pc = "report",
                             !.outcome = Some(Err(AppError("NotFound", <<"Environment">>)))]
    /\ UNCHANGED queueVars

\* one turn of `for scenario in scenarios`: run_scenario(...)? and
\* all_results.extend(results)
RunScenario(nets) ==
    /\ ex.pc \in {"inline", "run"} /\ ex.todo # << >>
    /\ LET sid == Head(ex.todo)
           r == run_scenario(ex.db, sid, nets)
       IN  /\ Len(nets) = ex.db[sid[1]].scenarios[sid[2]].len
           /\ ex' = IF r.ok
                    THEN [ex EXCEPT !.todo = Tail(@), !.ran = Append(@, sid),
                                    !.results = @ \o r.results,
                                    !.net = @ \o requests_of(ex.db, sid, nets)]
                    ELSE IF ex.pc = "run"
                    THEN [ex EXCEPT !.pc = "report", !.outcome = Some(Err(r.err))]
                    ELSE [ex EXCEPT !.pc = "done", !.response = Some(Err(r.err))]
    /\ UNCHANGED queueVars

\* the end of an inline run: the summary (run_collection_tests refuses an
\* empty one)
RespondInline ==
    /\ ex.pc = "inline" /\ ex.todo = << >>
    /\ ex' = [ex EXCEPT !.pc = "done",
                !.response =
                   IF ex.job_type = CollectionJob /\ ex.results = << >>
                   THEN Some(Err(AppError("Validation", <<"No", "scenarios", "found">>)))
                   ELSE Some(Ok(build_test_run_response(ex.results)))]
    /\ UNCHANGED queueVars

\* ResultHandler::save_results(...)? and the JobResult; `saved`: the
\* database took the report
SaveResults(saved, report_id) ==
    /\ ex.pc = "run" /\ ex.todo = << >>
    /\ ex' = [ex EXCEPT !.pc = "report",
                !.outcome =
                   IF saved THEN Some(Ok(JobResult(report_id, ex.results)))
                   ELSE Some(Err(AppError("Database", <<"Failed", "to", "save", "response">>)))]
    /\ UNCHANGED queueVars

TheOutcome == CHOOSE o \in ex.outcome : TRUE

\* the worker's match on executor.execute(job): Ok => complete_job,
\* Err(e) => fail_job(job_id, e.to_string(), is_retryable_error(&e))
Report ==
    /\ ex.pc = "report"
    /\ IF TheOutcome.ok
       THEN WorkerComplete(ExecWorker, TheOutcome.value.report_id)
       ELSE WorkerFail(ExecWorker, to_string(TheOutcome.err),
                       is_retryable_error(TheOutcome.err))
    /\ ex' = [ex EXCEPT !.pc = "done"]

ExecNext ==
    \/ \E found \in BOOLEAN : run_scenario_test(found) /\ UNCHANGED <<redisOnly, mem>>
    \/ \E found \in BOOLEAN : run_api_tests(found) /\ UNCHANGED <<redisOnly, mem>>
    \/ \E found \in BOOLEAN : run_collection_tests(found) /\ UNCHANGED <<redisOnly, mem>>
    \/ Notify /\ UNCHANGED <<redisOnly, mem, ex>>
    \/ DequeueTry(ExecWorker) /\ UNCHANGED <<redisOnly, mem, ex>>
    \/ DequeueSelect(ExecWorker) /\ UNCHANGED <<redisOnly, mem, ex>>
    \/ DequeueTimeout(ExecWorker) /\ UNCHANGED <<redisOnly, mem, ex>>
    \/ DequeueNotified(ExecWorker) /\ UNCHANGED <<redisOnly, mem, ex>>
    \/ WorkerMarkRunning(ExecWorker) /\ UNCHANGED <<redisOnly, mem, ex>>
    \/ \E found \in BOOLEAN : Execute(found) /\ UNCHANGED <<redisOnly, mem>>
    \/ \E nets \in UNION {[1..n -> NetOutcomes] : n \in 0..MaxExamples} :
          RunScenario(nets) /\ UNCHANGED <<redisOnly, mem>>
    \/ RespondInline /\ UNCHANGED <<redisOnly, mem>>
    \/ \E saved \in BOOLEAN, r \in ReportIds :
          SaveResults(saved, r) /\ UNCHANGED <<redisOnly, mem>>
    \/ Report /\ UNCHANGED <<redisOnly, mem>>

SpecExec == ExecInit /\ [][ExecNext]_vars

\* ------------------------------------------------ the worker's Err arm
\* SpecRetry: a worker holds a Running job that has been retried
\* retry_count times, executor.execute has returned Err(e) for any AppError
\* e, and the worker reports it.
MaxWords == 1         \* words of an error's message
Words == {"timeout", "connection", "network", "refused"}
Messages == UNION {[1..n -> Words] : n \in 0..MaxWords}
AppErrors ==
    {AppError(k, << >>) :
        k \in {"InvalidCredentials", "InvalidToken", "TokenExpired", "Unauthorized"}}
    \cup {AppError(k, m) :
            k \in {"NotFound", "Conflict", "Validation", "Database", "Internal", "Queue"},
            m \in Messages}

RetryInit ==
    /\ \E m \in 0..MaxRetries, r \in 0..MaxRetries, e \in AppErrors :
          /\ r <= m
          /\ jobs = Put(<< >>, 1,
                        [dequeue_mark(with_max_retries(TestJobNew(1, Caller, 1), m))
                            EXCEPT !.retry_count = r])
          /\ ex = [NewRequest(<< >>, ScenarioJob, <<1, 1>>, TRUE)
                      EXCEPT !.pc = "report", !.outcome = Some(Err(e))]
    /\ queue = << >>
    /\ issued = {1}
    /\ permit = FALSE
    /\ waiters = << >>
    /\ pendingNotify = 0
    /\ wpc = [w \in Workers |-> IF w = ExecWorker THEN "exec" ELSE "idle"]
    /\ wjob = [w \in Workers |-> IF w = ExecWorker THEN 1 ELSE 0]
    /\ byUser = [u \in PairUsers |-> {}]
    /\ cpc = [c \in Clients |-> "idle"]
    /\ cjob = [c \in Clients |-> 0]
    /\ rloc = [p \in Procs |-> None]
    /\ requeues = 0
    /\ mem = [jobs |-> << >>, queue |-> << >>, permit |-> FALSE]

RetryNext == Report /\ UNCHANGED <<redisOnly, mem>>

SpecRetry == RetryInit /\ [][RetryNext]_vars

\* ------------------------------------------- ResultHandler (result_handler.rs)
\* SpecSave: one scenario job from the handler to its end, with
\* save_results taken call by call: the report row, one response row per
\* result, the execution logs of the document store, finish_report.  A
\* Failed job is put back by the requeue endpoint and runs again.
\* ex.store: the rows of Postgres (reports, finished reports, responses) and
\* the execution logs of MongoDB
\* Uuid::new_v4() of ReportRepository::create
NewReportId(store) == Cardinality(store.reports) + 1
\* the database call of save_results that fails: none, the insert of the
\* report, the insert of the k-th response, or finish_report
NoFault == [op |-> "none", k |-> 0]
FailPoints(results) ==
    {[op |-> o, k |-> 0] : o \in {"none", "create", "finish"}}
       \cup {[op |-> "response", k |-> k] : k \in 1..Len(results)}
rows_of(report_id, n) == {<<report_id, i>> : i \in 1..n}

\* (faulty variant: the error of save_execution_logs is passed on with `?`)
save_responses_bug(store, report_id, results, fail_at, mongo_ok) ==
    LET n == IF fail_at.op = "response" THEN fail_at.k - 1 ELSE Len(results)
        rows == [store EXCEPT !.responses = @ \cup rows_of(report_id, n)]
    IN  IF fail_at.op = "response"
        THEN [store |-> rows,
              result |-> Err(AppError("Database", <<"Failed", "to", "save", "response">>))]
        ELSE IF mongo_ok
        THEN [store |-> [rows EXCEPT !.logs = @ \cup rows_of(report_id, n)],
              result |-> Ok(<< >>)]
        ELSE [store |-> rows,
              result |-> Err(AppError("Database", <<"MongoDB", "insert", "error">>))]
\* save_responses: a response row per result, `?` on each insert; then the
\* logs, whose error is only logged
save_responses(store, report_id, results, fail_at, mongo_ok) ==
    LET n == IF fail_at.op = "response" THEN fail_at.k - 1 ELSE Len(results)
        rows == [store EXCEPT !.responses = @ \cup rows_of(report_id, n)]
    IN  IF fail_at.op = "response"
        THEN [store |-> rows,
              result |-> Err(AppError("Database", <<"Failed", "to", "save", "response">>))]
        ELSE [store |-> IF mongo_ok
                        THEN [rows EXCEPT !.logs = @ \cup rows_of(report_id, n)]
                        ELSE rows,
              result |-> Ok(<< >>)]

\* save_results: ReportRepository::create(...)?, save_responses(...)?,
\* finish_report(...)?, Ok(report.id)
save_results(store, results, fail_at, mongo_ok) ==
    LET id == NewReportId(store)
        created == [store EXCEPT !.reports = @ \cup {id}]
        saved == save_responses(created, id, results, fail_at, mongo_ok)
    IN  IF fail_at.op = "create"
        THEN [store |-> store, result |-> Err(AppError("Database", <<"insert">>))]
        ELSE IF ~saved.result.ok THEN saved
        ELSE IF fail_at.op = "finish"
        THEN [store |-> saved.store, result |-> Err(AppError("Database", <<"update">>))]
        ELSE [store |-> [saved.store EXCEPT !.finished = @ \cup {id}],
              result |-> Ok(id)]

\* executor.execute from save_results on: `?`, then the JobResult.
\* MongoDB is only called with a log to insert
SaveResultsRows(fail_at, mongo_ok) ==
    /\ ex.pc = "run" /\ ex.todo = << >>
    /\ fail_at \in FailPoints(ex.results)
    /\ ex.results = << >> => mongo_ok
    /\ LET r == save_results(ex.store, ex.results, fail_at, mongo_ok)
       IN  ex' = [ex EXCEPT !.pc = "report", !.store = r.store,
                     !.fault = fail_at, !.mongo_ok = mongo_ok,
                     !.outcome =
                        IF r.result.ok
                        THEN Some(Ok(JobResult(r.result.value, ex.results)))
                        ELSE Some(r.result)]
    /\ UNCHANGED queueVars

\* POST /jobs/{id}/requeue of a job whose run has ended: queue.requeue
RequeueEnded ==
    /\ ex.pc = "done" /\ Stored(1)
    /\ requeue_result(1) = "Ok"
    /\ Requeue(1)
    /\ ex' = [ex EXCEPT !.pc = "queued", !.todo = << >>, !.ran = << >>,
                        !.results = << >>, !.net = << >>, !.outcome = None,
                        !.fault = NoFault, !.mongo_ok = TRUE]

\* one API with one scenario
SmallDatabases ==
    {<<[http_method |-> "patch", scenarios |-> <<[is_array |-> TRUE, len |-> n]>>]>> :
        n \in 0..MaxExamples}
SaveInit ==
    /\ QueueInit
    /\ \E db \in SmallDatabases : ex = NewRequest(db, ScenarioJob, <<1, 1>>, TRUE)

SaveNext ==
    \/ \E found \in BOOLEAN : run_scenario_test(found) /\ UNCHANGED <<redisOnly, mem>>
    \/ Notify /\ UNCHANGED <<redisOnly, mem, ex>>
    \/ DequeueTry(ExecWorker) /\ UNCHANGED <<redisOnly, mem, ex>>
    \/ DequeueSelect(ExecWorker) /\ UNCHANGED <<redisOnly, mem, ex>>
    \/ DequeueTimeout(ExecWorker) /\ UNCHANGED <<redisOnly, mem, ex>>
    \/ DequeueNotified(ExecWorker) /\ UNCHANGED <<redisOnly, mem, ex>>
    \/ WorkerMarkRunning(ExecWorker) /\ UNCHANGED <<redisOnly, mem, ex>>
    \/ \E found \in BOOLEAN : Execute(found) /\ UNCHANGED <<redisOnly, mem>>
    \/ \E nets \in UNION {[1..n -> NetOutcomes] : n \in 0..MaxExamples} :
          RunScenario(nets) /\ UNCHANGED <<redisOnly, mem>>
    \/ \E op \in {"none", "create", "finish", "response"}, k \in 0..MaxExamples,
          mongo_ok \in BOOLEAN :
          SaveResultsRows([op |-> op, k |-> k], mongo_ok) /\ UNCHANGED <<redisOnly, mem>>
    \/ Report /\ UNCHANGED <<redisOnly, mem>>
    \/ RequeueEnded /\ UNCHANGED <<redisOnly, mem>>

SpecSave == SaveInit /\ [][SaveNext]_vars

\* ------------------------------------------- TestRunner (test_runner.rs)
\* everything but ex: the runner's functions touch no queue
queueFixed == <<queueVars, redisOnly, mem>>

\* SpecSubst: substitute_placeholders applied to a step text and an example,
\* and once more to its own result.  A text is a sequence of tokens, each a
\* word or a placeholder `<key>`; str::replace on the joined string replaces
\* exactly the tokens equal to the placeholder.
MaxTextLen == 2       \* tokens of a step text
MaxValueLen == 2      \* tokens of a field's string value
Keys == {"a", "b"}
\* format!("<{}>", key)
placeholder(key) == "<" \o key \o ">"
Tokens == {"x"} \cup {placeholder(k) : k \in Keys}
Texts(n) == UNION {[1..m -> Tokens] : m \in 0..n}
\* serde_json values of an example's fields: strings, and a number
JsonString(s) == [type |-> "String", s |-> s]
JsonNumber == [type |-> "Number", s |-> <<"7">>]
FieldValues == {JsonString(s) : s \in Texts(MaxValueLen)} \cup {JsonNumber}
\* `match value { String(s) => s.clone(), Number(n) => n.to_string(), .. }`
replacement(value) == value.s
\* the example: not an object, or its fields in the order the map iterates
\* them
KeyOrders == {<< >>, <<"a">>, <<"b">>, <<"a", "b">>, <<"b", "a">>}
Examples ==
    {[is_object |-> FALSE, order |-> << >>, fields |-> << >>]}
       \cup UNION {{[is_object |-> TRUE, order |-> o, fields |-> f] :
                       f \in [{o[i] : i \in 1..Len(o)} -> FieldValues]} :
                   o \in KeyOrders}

\* str::replace(&placeholder, &replacement)
RECURSIVE replace(_, _, _)
replace(text, from, to) ==
    IF text = << >> THEN << >>
    ELSE (IF Head(text) = from THEN to ELSE <<Head(text)>>)
            \o replace(Tail(text), from, to)
\* `for (key, value) in obj { result = result.replace(..) }` from the i-th
\* field on
RECURSIVE replace_fields(_, _, _)
replace_fields(result, example, i) ==
    IF i > Len(example.order) THEN result
    ELSE replace_fields(replace(result, placeholder(example.order[i]),
                                replacement(example.fields[example.order[i]])),
                        example, i + 1)
substitute_placeholders(text, example) ==
    IF example.is_object THEN replace_fields(text, example, 1) ELSE text

SubstInit ==
    /\ QueueInit
    /\ \E text \in Texts(MaxTextLen), example \in Examples :
          ex = [pc |-> "text", text |-> text, example |-> example,
                once |-> << >>, twice |-> << >>]
Substitute ==
    /\ ex.pc = "text"
    /\ ex' = [ex EXCEPT !.pc = "once",
                        !.once = substitute_placeholders(ex.text, ex.example)]
SubstituteAgain ==
    /\ ex.pc = "once"
    /\ ex' = [ex EXCEPT !.pc = "twice",
                        !.twice = substitute_placeholders(ex.once, ex.example)]
SubstNext ==
    \/ Substitute /\ UNCHANGED queueFixed
    \/ SubstituteAgain /\ UNCHANGED queueFixed
SpecSubst == SubstInit /\ [][SubstNext]_vars

\* SpecJson: json_contains(actual, expected) on JSON values of depth two.
MaxItems == 2         \* elements of an array
JsonKeys == {"id", "name"}
Scalars ==
    {[type |-> "Number", n |-> 1], [type |-> "Number", n |-> 2],
     [type |-> "Null", n |-> 0]}
ArraysOf(V, n) ==
    {[type |-> "Array", items |-> s] : s \in UNION {[1..m -> V] : m \in 0..n}}
ObjectsOf(V, K) ==
    {[type |-> "Object", fields |-> f] : f \in UNION {[D -> V] : D \in SUBSET K}}
FlatValues == Scalars \cup ArraysOf(Scalars, MaxItems) \cup ObjectsOf(Scalars, JsonKeys)
JsonValues == FlatValues \cup ArraysOf(FlatValues, 1) \cup ObjectsOf(FlatValues, {"id"})

\* (faulty variant: no arm for arrays, they are compared for equality)
RECURSIVE json_contains_bug(_, _)
json_contains_bug(actual, expected) ==
    IF actual.type = "Object" /\ expected.type = "Object"
    THEN \A key \in DOMAIN expected.fields :
            IF key \in DOMAIN actual.fields
            THEN json_contains_bug(actual.fields[key], expected.fields[key])
            ELSE FALSE
    ELSE actual = expected
\* json_contains: `match (actual, expected)`
RECURSIVE json_contains(_, _)
json_contains(actual, expected) ==
    IF actual.type = "Object" /\ expected.type = "Object"
    THEN \A key \in DOMAIN expected.fields :
            IF key \in DOMAIN actual.fields
            THEN json_contains(actual.fields[key], expected.fields[key])
            ELSE FALSE
    ELSE IF actual.type = "Array" /\ expected.type = "Array"
    THEN \A i \in 1..Len(expected.items) :
            \E j \in 1..Len(actual.items) :
                json_contains(actual.items[j], expected.items[i])
    ELSE actual = expected

JsonInit ==
    /\ QueueInit
    /\ \E actual \in JsonValues, expected \in JsonValues :
          ex = [pc |-> "values", actual |-> actual, expected |-> expected,
                result |-> None]
JsonContains ==
    /\ ex.pc = "values"
    /\ ex' = [ex EXCEPT !.pc = "compared",
                        !.result = Some(json_contains(ex.actual, ex.expected))]
JsonNext == JsonContains /\ UNCHANGED queueFixed
SpecJson == JsonInit /\ [][JsonNext]_vars

\* SpecHeaders: the headers execute_request puts on the request.  The
\* request's header map keeps, for every name, the values in the order they
\* were added; RequestBuilder::header adds a value to the name's list.
HeaderNames == {"authorization", "x-trace"}
HeaderValues == {"v1", "v2"}
HeaderMaps == UNION {[D -> HeaderValues] : D \in SUBSET HeaderNames}
NoHeaders == [name \in HeaderNames |-> << >>]
\* request.header(key, value)
header(request, key, value) == [request EXCEPT ![key] = Append(@, value)]
\* `for (key, value) in headers { request = request.header(key, value) }`
header_each(request, headers) ==
    [name \in HeaderNames |->
        IF name \in DOMAIN headers
        THEN header(request, name, headers[name])[name]
        ELSE request[name]]
\* format!("Bearer {}", token)
Bearer(token) == "Bearer " \o token
\* execute_request, the three blocks that add headers
request_headers_of(auth_token, custom_headers, request_headers) ==
    LET with_auth == IF auth_token # None
                     THEN header(NoHeaders, "authorization",
                                 Bearer(CHOOSE t \in auth_token : TRUE))
                     ELSE NoHeaders
    IN  header_each(header_each(with_auth, custom_headers), request_headers)

HeadersInit ==
    /\ QueueInit
    /\ \E auth_token \in {None, Some("token")}, custom_headers \in HeaderMaps,
          request_headers \in HeaderMaps :
          ex = [pc |-> "config", auth_token |-> auth_token,
                custom_headers |-> custom_headers,
                request_headers |-> request_headers, request |-> NoHeaders]
BuildRequest ==
    /\ ex.pc = "config"
    /\ ex' = [ex EXCEPT !.pc = "built",
                 !.request = request_headers_of(ex.auth_token, ex.custom_headers,
                                                ex.request_headers)]
HeadersNext == BuildRequest /\ UNCHANGED queueFixed
SpecHeaders == HeadersInit /\ [][HeadersNext]_vars

\* SpecStatus: run_example's expected status: the example's own code, the
\* steps processed in order, then the response validated against it.
MaxSteps == 2         \* steps of a scenario
MaxStepWords == 2     \* words of a step's text
KeywordTypes == {"Context", "Action", "Outcome"}
StepWords == {"status", "404", placeholder("a")}
StepTexts == UNION {[1..m -> StepWords] : m \in 0..MaxStepWords}
GherkinSteps == [keyword_type : KeywordTypes, text : StepTexts]
StepLists == UNION {[1..n -> GherkinSteps] : n \in 0..MaxSteps}
\* the example's data: field a holds a status in range or one out of range
StatusExamples ==
    {[is_object |-> TRUE, order |-> <<"a">>, fields |-> [a |-> JsonString(<<w>>)]] :
        w \in {"500", "700"}}
ObservedStatuses == {200, 404, 500}
\* word.parse::<i16>() on the words of the model
Numerals == [w \in {"404", "500", "700"} |->
                IF w = "404" THEN 404 ELSE IF w = "500" THEN 500 ELSE 700]
parse_i16(word) == IF word \in DOMAIN Numerals THEN Some(Numerals[word]) ELSE None
\* `status >= 100 && status < 600` on a parsed word
in_range(parsed) == \E status \in parsed : status >= 100 /\ status < 600
\* extract_status_code: the loop over the words, from the i-th on
RECURSIVE extract_from(_, _)
extract_from(words, i) ==
    IF i > Len(words) THEN None
    ELSE IF in_range(parse_i16(words[i])) THEN parse_i16(words[i])
    ELSE IF words[i] \in {"status", "code"} /\ i + 1 <= Len(words)
            /\ in_range(parse_i16(words[i + 1]))
    THEN parse_i16(words[i + 1])
    ELSE extract_from(words, i + 1)
extract_status_code(text) == extract_from(text, 1)

\* (faulty variant: the step's keyword_type is not looked at)
process_step_bug(expected_status, step, example_data) ==
    LET text == substitute_placeholders(step.text, example_data)
    IN  IF extract_status_code(text) # None
        THEN extract_status_code(text)
        ELSE expected_status
\* process_step, its effect on context.expected_status
process_step(expected_status, step, example_data) ==
    LET text == substitute_placeholders(step.text, example_data)
    IN  IF step.keyword_type = "Outcome" /\ extract_status_code(text) # None
        THEN extract_status_code(text)
        ELSE expected_status

StatusInit ==
    /\ QueueInit
    /\ \E steps \in StepLists, example \in StatusExamples, status \in ObservedStatuses :
          ex = [pc |-> "steps", steps |-> steps, example |-> example, next |-> 1,
                expected_status |-> Some(ExpectedStatus), status |-> status,
                pass |-> None]
\* one turn of `for step in steps { self.process_step(..) }`
ProcessStep ==
    /\ ex.pc = "steps" /\ ex.next <= Len(ex.steps)
    /\ ex' = [ex EXCEPT !.next = @ + 1,
                 !.expected_status =
                    process_step(@, ex.steps[ex.next], ex.example)]
\* the response has come: validate_response, pass: validation.is_ok()
ValidateResponse ==
    /\ ex.pc = "steps" /\ ex.next > Len(ex.steps)
    /\ ex' = [ex EXCEPT !.pc = "validated",
                 !.pass = Some(validate_response(
                                  ex.status,
                                  CHOOSE s \in ex.expected_status : TRUE) = None)]
StatusNext ==
    \/ ProcessStep /\ UNCHANGED queueFixed
    \/ ValidateResponse /\ UNCHANGED queueFixed
SpecStatus == StatusInit /\ [][StatusNext]_vars

\* ------------------------------------------------ the worker's main (main.rs)
\* SpecLoop: the worker loop with its shutdown flag.  The queue and the
\* executor are taken by what their calls return: dequeue gives a job, none
\* or an error; update_status, execute, complete_job and fail_job succeed
\* or fail.  ex.handled and ex.survived count the jobs reported and the
\* errors met, ex.after the dequeue calls that returned after the shutdown
\* request; the counts stop at MaxCount.
MaxCount == 3
count(n) == IF n < MaxCount THEN n + 1 ELSE n
LoopInit ==
    /\ QueueInit
    /\ ex = [pc |-> "top", shutdown |-> FALSE, after |-> 0,
             handled |-> 0, survived |-> 0, outcome |-> None]
\* shutdown_signal() has returned: shutdown_tx.send(true)
RequestShutdown ==
    /\ ~ex.shutdown /\ ex.pc # "exited"
    /\ ex' = [ex EXCEPT !.shutdown = TRUE]
\* `if *shutdown_rx.borrow() { break; }`, else on to dequeue(5)
CheckShutdown ==
    /\ ex.pc = "top"
    /\ ex' = [ex EXCEPT !.pc = IF ex.shutdown THEN "exited" ELSE "dequeue"]
\* `match state.job_queue.dequeue(5).await`
DequeueReturns(result) ==
    /\ ex.pc = "dequeue"
    /\ ex' = [ex EXCEPT !.pc = CASE result = "job" -> "mark"
                                 [] result = "none" -> "top"
                                 [] result = "error" -> "backoff",
                        !.after = IF ex.shutdown THEN count(@) ELSE @,
                        !.survived = IF result = "error" THEN count(@) ELSE @]
\* tokio::time::sleep(1 s) of the Err arm
Backoff ==
    /\ ex.pc = "backoff"
    /\ ex' = [ex EXCEPT !.pc = "top"]
\* (faulty variant: a failed update_status ends the loop)
MarkRunning_bug(ok) ==
    /\ ex.pc = "mark"
    /\ ex' = IF ok THEN [ex EXCEPT !.pc = "execute"]
             ELSE [ex EXCEPT !.pc = "exited", !.survived = count(@)]
\* update_status(job_id, Running): `continue` on an error
MarkRunning(ok) ==
    /\ ex.pc = "mark"
    /\ ex' = IF ok THEN [ex EXCEPT !.pc = "execute"]
             ELSE [ex EXCEPT !.pc = "top", !.survived = count(@)]
\* executor.execute(job).await
ExecuteJob(ok) ==
    /\ ex.pc = "execute"
    /\ ex' = [ex EXCEPT !.pc = "report", !.outcome = Some(ok),
                        !.survived = IF ok THEN @ ELSE count(@)]
\* complete_job or fail_job; its own error is only logged
ReportJob(ok) ==
    /\ ex.pc = "report"
    /\ ex' = [ex EXCEPT !.pc = "top", !.outcome = None, !.handled = count(@),
                        !.survived = IF ok THEN @ ELSE count(@)]
LoopStep ==
    \/ CheckShutdown /\ UNCHANGED queueFixed
    \/ \E result \in {"job", "none", "error"} :
          DequeueReturns(result) /\ UNCHANGED queueFixed
    \/ Backoff /\ UNCHANGED queueFixed
    \/ \E ok \in BOOLEAN : MarkRunning(ok) /\ UNCHANGED queueFixed
    \/ \E ok \in BOOLEAN : ExecuteJob(ok) /\ UNCHANGED queueFixed
    \/ \E ok \in BOOLEAN : ReportJob(ok) /\ UNCHANGED queueFixed
LoopNext ==
    \/ RequestShutdown /\ UNCHANGED queueFixed
    \/ LoopStep
\* the loop's task is scheduled, and every call it awaits returns
SpecLoop == LoopInit /\ [][LoopNext]_vars /\ WF_vars(LoopStep)

\* ================================================================ claims
SameButStatusAndTimes(new, old) ==
    /\ new.id = old.id /\ new.user_id = old.user_id
    /\ new.retry_count = old.retry_count /\ new.max_retries = old.max_retries
    /\ new.error_message = old.error_message /\ new.report_id = old.report_id

\* C1: every stored job has retry_count <= max_retries, in every reachable
\* state of the queue.
C1_RetryBound == \A j \in DOMAIN jobs : jobs[j].retry_count <= jobs[j].max_retries
\* a job that used up its retries, failed once more and is Dead
C1_Witness ==
    \E j \in DOMAIN jobs :
        /\ jobs[j].max_retries >= 1
        /\ jobs[j].retry_count = jobs[j].max_retries
        /\ jobs[j].status = Dead

\* C2: once a job is Completed, Dead or Cancelled its status never changes
\* again, whatever operation is applied to it.
C2_TerminalIsFinal ==
    [][\A j \in DOMAIN jobs :
          is_terminal(jobs[j].status) => jobs'[j].status = jobs[j].status]_vars

\* A worker holds the job its dequeue returned until it calls complete_job
\* or fail_job for it.
Holding(w) == wpc[w] \in {"got", "update_set", "exec"}

\* C3: between a dequeue that returned job j and that worker's complete_job
\* or fail_job for j, no other dequeue returns j, so no two workers ever
\* hold the same job at once (Redis backend, dequeue and requeue).
C3_OneHolder ==
    \A w1 \in Workers, w2 \in Workers :
        (w1 # w2 /\ Holding(w1) /\ Holding(w2)) => wjob[w1] # wjob[w2]

\* C4: concurrent calls on one job id leave the record that some serial
\* order of them leaves, so no step undoes a finished call: every call keeps
\* a completed_at that is set and none lowers retry_count, hence in a serial
\* order completed_at stays set and retry_count never goes down (Redis
\* backend, cancel_job, dequeue and the other save_job callers).
C4_NoLostUpdate ==
    [][\A j \in DOMAIN jobs :
          j \in DOMAIN jobs' =>
              /\ jobs[j].completed_at # None => jobs'[j].completed_at # None
              /\ jobs'[j].retry_count >= jobs[j].retry_count]_vars

\* C5: a job cancelled while Pending is never handed out by a later dequeue:
\* no dequeue returns a job whose stored status is Cancelled.
C5_CancelledNotDequeued ==
    [][\A w \in Workers :
          (wpc[w] # "got" /\ wpc'[w] = "got") => jobs[wjob'[w]].status # Cancelled]_vars

\* C6: a stored job has completed_at set exactly when its status is terminal.
C6_CompletedAtIffTerminal ==
    \A j \in DOMAIN jobs : (jobs[j].completed_at # None) <=> is_terminal(jobs[j].status)

\* C7: cancel_job returns a validation error on a terminal job and leaves the
\* record as it is; on a Pending or Running job it returns Ok, sets Cancelled
\* and stamps completed_at; on an unknown id it returns not-found.
C7_Result ==
    \A j \in JobIds :
        /\ ~Stored(j) => cancel_job_result(j) = "NotFound"
        /\ (Stored(j) /\ is_terminal(jobs[j].status)) => cancel_job_result(j) = "Validation"
        /\ (Stored(j) /\ jobs[j].status \in {Pending, Running}) => cancel_job_result(j) = "Ok"
C7_Effect ==
    \A j \in JobIds :
        CancelJob(j) =>
            IF cancel_job_result(j) = "Ok"
            THEN /\ jobs'[j].status = Cancelled
                 /\ jobs'[j].completed_at # None
                 /\ jobs'[j].started_at = jobs[j].started_at
                 /\ SameButStatusAndTimes(jobs'[j], jobs[j])
                 /\ \A k \in DOMAIN jobs \ {j} : jobs'[k] = jobs[k]
            ELSE jobs' = jobs
C7_CancelJob == [](C7_Result) /\ [][C7_Effect]_vars
\* a Running job was cancelled, and cancelling it again is refused
C7_Witness ==
    \E j \in DOMAIN jobs :
        /\ jobs[j].status = Cancelled
        /\ jobs[j].started_at # None
        /\ jobs[j].completed_at # None
        /\ cancel_job_result(j) = "Validation"

\* C8: requeue succeeds only on a Failed job: status Pending, started_at and
\* error_message cleared, id appended at the tail of the FIFO; from any other
\* status it returns a validation error and changes neither record nor FIFO.
C8_Result ==
    \A j \in DOMAIN jobs :
        requeue_result(j) = (IF jobs[j].status = Failed THEN "Ok" ELSE "Validation")
C8_Effect ==
    \A j \in DOMAIN jobs :
        Requeue(j) =>
            IF jobs[j].status = Failed
            THEN /\ jobs'[j].status = Pending
                 /\ jobs'[j].started_at = None
                 /\ jobs'[j].error_message = None
                 /\ jobs'[j].retry_count = jobs[j].retry_count
                 /\ jobs'[j].completed_at = jobs[j].completed_at
                 /\ queue' = queue \o <<j>>
            ELSE jobs' = jobs /\ queue' = queue
C8_Requeue == [](C8_Result) /\ [][C8_Effect]_vars
\* a job that failed was requeued behind another job
C8_Witness ==
    /\ Len(queue) >= 2
    /\ LET j == queue[Len(queue)] IN
          /\ Stored(j)
          /\ jobs[j].status = Pending
          /\ jobs[j].retry_count >= 1
          /\ jobs[j].started_at = None /\ jobs[j].error_message = None

\* C9: fail_job(retryable) with retries left adds one to retry_count and sets
\* Failed; with retry_count = max_retries, or not retryable, it sets Dead and
\* stamps completed_at without counting.  So a Failed job has seen between 1
\* and max_retries failures, and the failure after the last retry is Dead.
C9_Effect ==
    \A w \in Workers, e \in Errors, b \in BOOLEAN :
        (WorkerFail(w, e, b) /\ Stored(wjob[w])) =>
            LET old == jobs[wjob[w]]
                new == jobs'[wjob[w]]
            IN  /\ new.error_message = Some(e)
                /\ IF b /\ old.retry_count < old.max_retries
                   THEN /\ new.retry_count = old.retry_count + 1
                        /\ new.status = Failed
                        /\ new.completed_at = old.completed_at
                   ELSE /\ new.retry_count = old.retry_count
                        /\ new.status = Dead
                        /\ new.completed_at # None
C9_Failed ==
    \A j \in DOMAIN jobs :
        jobs[j].status = Failed =>
            (jobs[j].retry_count >= 1 /\ jobs[j].retry_count <= jobs[j].max_retries)
C9_FailJob == [](C9_Failed) /\ [][C9_Effect]_vars
\* max_retries = 2: Dead after the third failure, with retry_count 2
C9_Witness ==
    \E j \in DOMAIN jobs :
        /\ jobs[j].max_retries = 2 /\ jobs[j].retry_count = 2
        /\ jobs[j].status = Dead /\ jobs[j].completed_at # None

\* C10: enqueue lengthens the FIFO by one; a dequeue that returns a job
\* returns the head of the FIFO, Running and with started_at set, as get_job
\* then shows, and shortens the FIFO by one; a dequeue that finds the FIFO
\* empty returns none only after its timeout, never at once.
C10_Step ==
    /\ \A j \in JobIds, u \in Users, m \in 0..MaxRetries :
          Enqueue(j, u, m) => queue_length' = queue_length + 1
    /\ \A w \in Workers :
          ((DequeueTry(w) \/ DequeueNotified(w)) /\ wpc'[w] = "got") =>
              /\ wjob'[w] = Head(queue)
              /\ get_job_in(jobs', Head(queue)) = Some(dequeue_mark(jobs[Head(queue)]))
              /\ jobs'[Head(queue)].status = Running
              /\ jobs'[Head(queue)].started_at # None
              /\ queue_length' = queue_length - 1
    /\ \A w \in Workers :
          (DequeueNotified(w) /\ wpc[w] = "notified") => wpc'[w] = "got"
C10_EnqueueDequeue == [][C10_Step]_vars

\* C11: the queue is first-in first-out: an id is only ever added behind the
\* ids already waiting, and only the oldest waiting id is taken out, which is
\* the one a successful dequeue returns; so ids leave in the order they came.
C11_Step ==
    \/ queue' = queue
    \/ \E j \in JobIds : queue' = queue \o <<j>>
    \/ /\ queue # << >>
       /\ queue' = Tail(queue)
       /\ \A w \in Workers :
             (wpc[w] # "got" /\ wpc'[w] = "got") => wjob'[w] = Head(queue)
C11_Fifo == [][C11_Step]_vars
\* a worker was handed one id while a different, later id still waits
C11_Witness ==
    \E w \in Workers :
        /\ wpc[w] = "got"
        /\ queue # << >>
        /\ Head(queue) # wjob[w]

\* C12: the two backends have the same semantics: after any sequence of
\* calls issued one at a time to both, every call returns the same on both:
\* get_job, the Ok / not-found / validation result of update_status,
\* complete_job, fail_job, delete_job, requeue and cancel_job, queue_length,
\* the job dequeue returns, and the list of list_jobs_by_user.
C12_SameResults ==
    /\ \A j \in JobIds :
          /\ get_job_in(mem.jobs, j) = get_job(j)
          /\ found_in(mem.jobs, j) = found_result(j)
          /\ requeue_result_in(mem.jobs, j) = requeue_result(j)
          /\ cancel_result_in(mem.jobs, j) = cancel_job_result(j)
    /\ Len(mem.queue) = queue_length
    /\ m_dequeue(mem)[2] = r_dequeue[3]
    /\ \A u \in PairUsers, limit \in 0..MaxLimit :
          r_list_jobs_by_user(u, limit) = {m_list_jobs_by_user(u, limit)}

\* the jobs of table m that user_id owns
OwnedBy(m, user_id) == {m[j] : j \in {k \in DOMAIN m : m[k].user_id = user_id}}
\* list is what list_jobs_by_user(user_id, limit) has to return on table m
ListIsRight(list, m, user_id, limit) ==
    LET got == {list[i] : i \in 1..Len(list)}
    IN  /\ got \subseteq OwnedBy(m, user_id)
        /\ Len(list) = Min(limit, Cardinality(OwnedBy(m, user_id)))
        /\ \A i \in 1..Len(list), k \in 1..Len(list) :
              i < k => list[i].created_at >= list[k].created_at
        /\ \A x \in got, y \in OwnedBy(m, user_id) \ got :
              y.created_at <= x.created_at

\* C13: list_jobs_by_user(user_id, limit) returns only jobs of user_id, at
\* most limit of them, newest first, and when the user owns more than limit
\* jobs, the limit newest ones (either backend).
C13_ListJobsByUser ==
    \A u \in PairUsers, limit \in 0..MaxLimit :
        /\ ListIsRight(m_list_jobs_by_user(u, limit), mem.jobs, u, limit)
        /\ \A list \in r_list_jobs_by_user(u, limit) :
              ListIsRight(list, jobs, u, limit)

\* C14: a user can neither see nor change another user's job through the
\* job endpoints: get-status, cancel and requeue on a job of another owner
\* answer not-found, and leave the job record and the FIFO as they are.
C14_Result ==
    \A caller \in PairUsers, j \in DOMAIN jobs :
        jobs[j].user_id # caller =>
            /\ get_job_status(caller, j) = None
            /\ cancel_job_handler_result(caller, j) = "NotFound"
            /\ requeue_job_handler_result(caller, j) = "NotFound"
C14_Effect ==
    \A caller \in PairUsers, j \in DOMAIN jobs :
        (jobs[j].user_id # caller /\ (HCancelJob(caller, j) \/ HRequeueJob(caller, j)))
            => (jobs' = jobs /\ queue' = queue)
C14_OtherUsersJob == [](C14_Result) /\ [][C14_Effect]_vars
\* two users own a job each: one Pending (it could be cancelled) and one
\* Failed (it could be requeued)
C14_Witness ==
    \E j \in DOMAIN jobs, k \in DOMAIN jobs :
        /\ jobs[j].user_id # jobs[k].user_id
        /\ jobs[j].status = Pending
        /\ jobs[k].status = Failed

\* C15: a worker that got a job from dequeue goes on to execute it, and
\* leaves the execution only by reporting one outcome for that job,
\* complete_job or fail_job; no outcome is written except by the worker
\* that executes the job, once; and (execution ending) every job a worker
\* got is reported.
C15_Step ==
    /\ \A w \in Workers :
          /\ (wpc[w] = "got" /\ wpc'[w] # "got") =>
                (wpc'[w] = "exec" /\ wjob'[w] = wjob[w])
          /\ (wpc[w] = "exec" /\ wpc'[w] # "exec") =>
                /\ wpc'[w] = "idle"
                /\ jobs'[wjob[w]].status \in {Completed, Failed, Dead}
                /\ \/ \E r \in ReportIds : CompleteJob(wjob[w], r)
                   \/ \E e \in Errors, b \in BOOLEAN : FailJob(wjob[w], e, b)
    /\ \A j \in DOMAIN jobs :
          (jobs'[j] # jobs[j] /\ jobs'[j].status \in {Completed, Failed, Dead}) =>
              \E w \in Workers : wpc[w] = "exec" /\ wjob[w] = j /\ wpc'[w] = "idle"
AllExamplesRan ==
    \A k \in 1..Len(ex.ran) :
        Cardinality({i \in 1..Len(ex.results) : ex.results[i].scenario_id = ex.ran[k]})
           = ex.db[ex.ran[k][1]].scenarios[ex.ran[k][2]].len
\* the message names every word of the text
Mentions(message, text) == \A i \in 1..Len(text) : contains(message, text[i])
\* the results of the examples whose request met a transport error
TransportFailures == {i \in 1..Len(ex.results) : ex.net[i].kind = "error"}
C16_PerExample ==
    \A i \in TransportFailures :
        /\ ~ex.results[i].pass
        /\ ex.results[i].response_status = 0
        /\ ex.results[i].response_data = None
C16_Message ==
    \A i \in TransportFailures :
        \E m \in ex.results[i].error_message : Mentions(m, ex.net[i].text)
C16_NotJobLevel ==
    /\ AllExamplesRan
    /\ \A o \in ex.outcome : ~o.ok => o.err.kind # "Internal"
    /\ (ex.pc = "done" /\ TransportFailures # {}) =>
          \A j \in DOMAIN jobs :
              (\E o \in ex.outcome : o.ok) =>
                  jobs[j].status = Completed /\ jobs[j].report_id # None
\* C16: a transport failure of one example is that example's failed result
\* (pass false, status 0, no body, the transport error as its message); it
\* is never the job's error, the other examples run, and the job ends
\* Completed with a report
C16_TransportFailure == C16_PerExample /\ C16_Message /\ C16_NotJobLevel

\* ---------------------------------------------------------------- C17
\* the method is one of the seven, whatever its case
DeclaredSupported(method) == method \in SupportedMethods \cup {"patch"}
\* the first scenario of the run has an example, and its API declares a
\* method that is none of the seven
FirstIsUnsupported ==
    LET all == scenarios_of(ex.db, ex.job_type, ex.target)
    IN  /\ all # << >>
        /\ ~DeclaredSupported(ex.db[all[1][1]].http_method)
        /\ ex.db[all[1][1]].scenarios[all[1][2]].is_array
        /\ ex.db[all[1][1]].scenarios[all[1][2]].len > 0
\* a row of the request was not found
RowNotFound ==
    \/ \E r \in ex.response : ~r.ok /\ r.err.kind = "NotFound"
    \/ \E o \in ex.outcome : ~o.ok /\ o.err.kind = "NotFound"
\* C17: an API whose method is none of GET, POST, PUT, DELETE, PATCH, HEAD,
\* OPTIONS (in any case) makes the execution fail with a validation error:
\* no request is sent, nothing is retried, and the error is the handler's
\* answer (inline run) or the job's error_message (queued run)
C17_UnsupportedMethod ==
    (ex.pc = "done" /\ FirstIsUnsupported /\ ~RowNotFound) =>
        /\ \A i \in 1..Len(ex.net) : ex.net[i] = NotSent
        /\ IF ~ex.async_execution
           THEN \E r \in ex.response : ~r.ok /\ r.err.kind = "Validation"
           ELSE \A j \in DOMAIN jobs :
                   /\ jobs[j].status = Dead
                   /\ jobs[j].retry_count = 0
                   /\ \E o \in ex.outcome :
                         /\ ~o.ok /\ o.err.kind = "Validation"
                         /\ jobs[j].error_message = Some(to_string(o.err))

\* ---------------------------------------------------------------- C18
\* the classification the claim gives
ClaimedRetryable(e) ==
    \/ e.kind = "Database"
    \/ /\ e.kind \in {"Internal", "Queue"}
       /\ \E w \in {"timeout", "connection", "network"} : contains(e.msg, w)
ScenariosOfApi(db, a) == [s \in 1..Len(db[a].scenarios) |-> <<a, s>>]
AllScenarios(db, job_type, target) ==
    CASE job_type = ScenarioJob -> <<target>>
      [] job_type = ApiJob -> ScenariosOfApi(db, target[1])
      [] job_type = CollectionJob ->
            extend_all([a \in 1..Len(db) |-> ScenariosOfApi(db, a)])
\* where a scenario stands in the run
PlaceOf(sid) == CHOOSE k \in 1..Len(ex.ran) : ex.ran[k] = sid
\* one result per example, scenario after scenario, examples 0..n-1 in order
ResultsInOrder ==
    /\ \A k \in 1..Len(ex.ran) :
          \A e \in 0..(ex.db[ex.ran[k][1]].scenarios[ex.ran[k][2]].len - 1) :
              Cardinality({i \in 1..Len(ex.results) :
                              /\ ex.results[i].scenario_id = ex.ran[k]
                              /\ ex.results[i].example_index = e}) = 1
    /\ Len(ex.results) =
          Cardinality({<<ex.results[i].scenario_id, ex.results[i].example_index>> :
                          i \in 1..Len(ex.results)})
    /\ \A i, j \in 1..Len(ex.results) :
          i < j =>
             \/ PlaceOf(ex.results[i].scenario_id) < PlaceOf(ex.results[j].scenario_id)
             \/ /\ ex.results[i].scenario_id = ex.results[j].scenario_id
                /\ ex.results[i].example_index < ex.results[j].example_index
\* C19: a job runs the scenarios its kind names (its one scenario, every
\* scenario of the API, every scenario of every API of the collection);
\* each gives one result per example, in order, indexed 0..n-1; the results
\* are one list in execution order behind one report, and passed + failed
\* = total
C19_FanOut ==
    \A o \in ex.outcome :
        o.ok =>
            /\ ex.ran = AllScenarios(ex.db, ex.job_type, ex.target)
            /\ ResultsInOrder
            /\ o.value.total_tests = Len(ex.results)
            /\ o.value.passed + o.value.failed = o.value.total_tests
            /\ ex.pc = "done" =>
                  \A j \in DOMAIN jobs : jobs[j].report_id = Some(o.value.report_id)
\* the same, for the jobs that stay within one page of the queries
C19_WithinPage ==
    (\A a \in 1..Len(ex.db) : Len(ex.db[a].scenarios) <= PageSize) => C19_FanOut

\* ---------------------------------------------------------------- C20
C20_State ==
    /\ ~ex.async_execution =>
          /\ jobs = << >> /\ queue = << >> /\ issued = {}
          /\ ex.pc = "done" =>
                \A r \in ex.response :
                    r.ok => /\ r.value.results = ex.results
                            /\ r.value.total = Len(ex.results)
    /\ ex.async_execution =>
          /\ ex.pc # "inline"
          /\ Cardinality(DOMAIN jobs) <= 1
C20_Step ==
    (ex.pc = "request" /\ ex'.pc \notin {"request", "done"}) =>
        IF ex.async_execution
        THEN /\ ex'.pc = "queued"
             /\ ex'.results = << >> /\ ex'.net = << >>
             /\ \E j \in DOMAIN jobs' :
                   /\ DOMAIN jobs = DOMAIN jobs' \ {j} /\ j \notin DOMAIN jobs
                   /\ jobs'[j].status = Pending
                   /\ jobs'[j].user_id = Caller
                   /\ queue' = Append(queue, j)
                   /\ \E r \in ex'.response :
                         r.ok /\ r.value = [job_id |-> j, status |-> "pending"]
        ELSE /\ ex'.pc = "inline"
             /\ jobs' = jobs /\ queue' = queue
             /\ ex'.response = None
\* C20: an accepted run request with async_execution true enqueues exactly
\* one new Pending job of the caller and answers with its job_id and
\* "pending" without running a test; with async_execution false the handler
\* runs the tests itself, answers with their summary and no job is added
C20_AsyncOrInline == [](C20_State) /\ [][C20_Step]_vars
\* a request with async_execution was answered and its job waits in the queue
C20_Witness ==
    /\ ex.pc = "queued" /\ ex.async_execution
    /\ \E j \in DOMAIN jobs : jobs[j].status = Pending /\ queue = <<j>>
    /\ ex.response # None

\* the report of the run in hand: the last one created
CurrentReport == Cardinality(ex.store.reports)
\* save_results has run, MongoDB refused the logs, and no call of Postgres
\* failed
MongoAloneFailed ==
    /\ ex.pc \in {"report", "done"}
    /\ ~ex.mongo_ok /\ ex.fault = NoFault

\* C21: when the document store fails while the execution logs are mirrored
\* and nothing else fails, the report row and one response row per result
\* are stored, save_results returns the id of the report, and the job ends
\* Completed with that report.
C21_MongoNonFatal ==
    MongoAloneFailed =>
        /\ CurrentReport \in ex.store.reports
        /\ CurrentReport \in ex.store.finished
        /\ rows_of(CurrentReport, Len(ex.results)) \subseteq ex.store.responses
        /\ ex.outcome = Some(Ok(JobResult(CurrentReport, ex.results)))
        /\ ex.pc = "done" =>
              /\ jobs[1].status = Completed
              /\ jobs[1].report_id = Some(CurrentReport)
C21_Witness ==
    /\ MongoAloneFailed /\ ex.pc = "done"
    /\ ex.results # << >>
    /\ rows_of(CurrentReport, Len(ex.results)) \cap ex.store.logs = {}
    /\ jobs[1].status = Completed

\* at most one report row has been created for the job
C29_AtMostOneReport == Cardinality(ex.store.reports) <= 1
\* once the worker has reported, a report row exists only for a Completed
\* job whose report_id names it
C29_OnlyForCompleted ==
    ex.pc = "done" =>
        \A id \in ex.store.reports :
            jobs[1].status = Completed /\ jobs[1].report_id = Some(id)
\* C29: over a job's whole life, requeued runs included, at most one report
\* row is created for it, and a report row exists only for a job that ends
\* Completed with report_id naming that report; a Failed or Dead job leaves
\* no report behind.
C29_OneReport == C29_AtMostOneReport /\ C29_OnlyForCompleted

\* no field's value holds a placeholder
PlainValues ==
    \A k \in DOMAIN ex.example.fields :
        \A i \in 1..Len(ex.example.fields[k].s) :
            ex.example.fields[k].s[i] \notin {placeholder(key) : key \in Keys}
\* C22: substitution is idempotent: substituting the result once more with
\* the same example gives the same text, also when a field's value holds a
\* `<field>` token of the example.
C22_Idempotent == ex.pc = "twice" => ex.twice = ex.once
\* the same for examples whose values hold no placeholder: every
\* placeholder of a field is replaced, once
C22_IdempotentOnPlainValues ==
    (ex.pc = "twice" /\ PlainValues) =>
        /\ ex.twice = ex.once
        /\ \A i \in 1..Len(ex.once) :
              ex.once[i] \notin {placeholder(k) : k \in DOMAIN ex.example.fields}

BothAre(type) == ex.actual.type = type /\ ex.expected.type = type
\* the expected object takes some of the actual object's fields, values
\* unchanged
SubsetOfFields ==
    /\ BothAre("Object")
    /\ DOMAIN ex.expected.fields \subseteq DOMAIN ex.actual.fields
    /\ \A k \in DOMAIN ex.expected.fields :
          ex.expected.fields[k] = ex.actual.fields[k]
\* the expected object has a field whose scalar value is not the actual one
DifferingValue ==
    /\ BothAre("Object")
    /\ \E k \in DOMAIN ex.expected.fields \cap DOMAIN ex.actual.fields :
          /\ ex.expected.fields[k] \in Scalars
          /\ ex.expected.fields[k] # ex.actual.fields[k]
\* C23: json_contains(actual, expected) holds exactly when: for two objects,
\* every key of expected is a key of actual with a contained value; for two
\* arrays, every element of expected is contained by some element of actual;
\* otherwise the two are equal.  So an actual object with extra fields
\* contains a subset of its fields, and not an object with another value
\* for a field.
C23_Containment ==
    ex.pc = "compared" =>
        /\ BothAre("Object") =>
              (ex.result = Some(TRUE)) <=>
                  \A k \in DOMAIN ex.expected.fields :
                      /\ k \in DOMAIN ex.actual.fields
                      /\ json_contains(ex.actual.fields[k], ex.expected.fields[k])
        /\ BothAre("Array") =>
              (ex.result = Some(TRUE)) <=>
                  \A e \in {ex.expected.items[i] : i \in 1..Len(ex.expected.items)} :
                      \E a \in {ex.actual.items[j] : j \in 1..Len(ex.actual.items)} :
                          json_contains(a, e)
        /\ (~BothAre("Object") /\ ~BothAre("Array")) =>
              (ex.result = Some(TRUE)) <=> (ex.actual = ex.expected)
        /\ SubsetOfFields => ex.result = Some(TRUE)
        /\ DifferingValue => ex.result = Some(FALSE)
        /\ ex.result \in {Some(TRUE), Some(FALSE)}
C23_Witness ==
    /\ ex.pc = "compared" /\ ex.result = Some(TRUE)
    /\ BothAre("Object")
    /\ DOMAIN ex.expected.fields = {"id"}
    /\ DOMAIN ex.actual.fields = {"id"}
    /\ ex.actual.fields["id"].type = "Array"
    /\ ex.actual.fields["id"] # ex.expected.fields["id"]
    /\ ex.expected.fields["id"].items # << >>

\* the value the latest source gives a header name, if any source names it
LatestValue(name) ==
    IF name \in DOMAIN ex.request_headers THEN Some(ex.request_headers[name])
    ELSE IF name \in DOMAIN ex.custom_headers THEN Some(ex.custom_headers[name])
    ELSE IF name = "authorization" /\ ex.auth_token # None
    THEN Some(Bearer(CHOOSE t \in ex.auth_token : TRUE))
    ELSE None
\* C24: the bearer token, the run's custom headers and the headers of the
\* steps are applied in this order and on a name conflict the later source
\* wins: the request carries one value for the name, the latest source's.
C24_LaterSourceWins ==
    ex.pc = "built" =>
        \A name \in HeaderNames :
            {ex.request[name][i] : i \in 1..Len(ex.request[name])} = LatestValue(name)
            /\ Len(ex.request[name]) <= 1
\* what holds: the values of a name are on the request in the order token,
\* custom header, step header, the latest source's value last
C24_InSourceOrder ==
    ex.pc = "built" =>
        \A name \in HeaderNames :
            /\ (LatestValue(name) = None) <=> (ex.request[name] = << >>)
            /\ ex.request[name] # << >> =>
                  Some(ex.request[name][Len(ex.request[name])]) = LatestValue(name)
            /\ (name \notin DOMAIN ex.custom_headers \cap DOMAIN ex.request_headers
                  /\ ~(name = "authorization" /\ ex.auth_token # None))
                  => Len(ex.request[name]) <= 1

\* the status codes the substituted text of step i carries
CodesOf(i) ==
    LET text == substitute_placeholders(ex.steps[i].text, ex.example)
    IN  {Numerals[text[k]] : k \in {k \in 1..Len(text) :
            text[k] \in DOMAIN Numerals /\ Numerals[text[k]] \in 100..599}}
\* the Outcome steps that carry a status code
Deciding == {i \in 1..Len(ex.steps) :
                ex.steps[i].keyword_type = "Outcome" /\ CodesOf(i) # {}}
LastDeciding == CHOOSE i \in Deciding : \A j \in Deciding : j <= i
\* C25: the expected status is the example's own code unless an Outcome
\* step carries a status code; then the last such step decides, and steps
\* of type Context or Action change nothing.  The example passes only if
\* the observed status is that value.
C25_ExpectedStatus ==
    ex.pc = "validated" =>
        /\ Deciding = {} => ex.expected_status = Some(ExpectedStatus)
        /\ Deciding # {} =>
              \E code \in CodesOf(LastDeciding) : ex.expected_status = Some(code)
        /\ ex.pass = Some(TRUE) => Some(ex.status) = ex.expected_status
C25_Witness ==
    /\ ex.pc = "validated" /\ ex.pass = Some(TRUE)
    /\ Len(ex.steps) = 2
    /\ Deciding = {1}
    /\ ex.steps[2].keyword_type = "Action" /\ CodesOf(2) = {404}
    /\ ex.steps[1].text = <<"status", placeholder("a")>>
    /\ ex.status = 500

\* C26: the worker loop ends only on shutdown: it is still running after
\* every dequeue error (back-off, then the next turn), failed job and failed
\* status report; once shutdown is requested it reports the job it holds,
\* lets at most one more dequeue return, and exits.
C26_StopsOnlyOnShutdown ==
    /\ [](ex.pc = "exited" => ex.shutdown)
    /\ [](ex.after <= 1)
    /\ [][ex'.pc = "exited" => ex.pc = "top"]_vars
    /\ [][ex.pc = "backoff" => ex'.pc \in {"backoff", "top"}]_vars
    /\ (ex.shutdown ~> ex.pc = "exited")
C26_Witness ==
    /\ ex.pc = "exited"
    /\ ex.survived = MaxCount /\ ex.handled >= 1
    /\ ex.after = 1

InFifo == {queue[i] : i \in 1..Len(queue)}
PendingJobs == {j \in DOMAIN jobs : jobs[j].status = Pending}
\* C27: the FIFO holds exactly the ids of the stored jobs that are Pending,
\* each once: queue_length is the number of Pending jobs, and no id of a
\* Running, Failed, Completed, Dead, Cancelled or deleted job is in it.
C27_FifoIsPending ==
    /\ InFifo = PendingJobs
    /\ queue_length = Cardinality(PendingJobs)
\* what holds: every Pending job's id is in the FIFO, and no id is in it
\* twice
C27_PendingInFifo ==
    /\ PendingJobs \subseteq InFifo
    /\ queue_length = Cardinality(InFifo)

\* C28: a dequeue that pops while the FIFO holds the id of a stored job
\* returns a job, not none, also when the id at the head is that of a
\* deleted job.
C28_Step ==
    \A w \in Workers :
        (DequeueNotified(w) /\ \E i \in 1..Len(queue) : Stored(queue[i]))
            => wpc'[w] = "got"
C28_JobIfQueued == [][C28_Step]_vars

\* a dequeue has returned job j to a worker
Returned(j) == \E w \in Workers : wpc[w] = "got" /\ wjob[w] = j
\* C30: with a consumer that keeps calling dequeue, every Pending job whose
\* id is in the FIFO is returned by some dequeue in the end, however the
\* notifications of enqueue and requeue fall between the consumers'
\* entering, waiting in and timing out of dequeue.
C30_NoLostWakeup ==
    \A j \in JobIds :
        (Stored(j) /\ jobs[j].status = Pending /\ j \in InFifo) ~> Returned(j)
\* a job is returned to a consumer that was woken while another consumer
\* waits and a further job is queued
C30_Witness ==
    /\ Returned(1) /\ wpc[1] = "got"
    /\ wpc[2] = "waiting"
    /\ queue = <<2>> /\ jobs[2].status = Pending
    /\ ~permit /\ pendingNotify = 0
====
